---- MODULE Spec2Model ----
(***************************************************************************)
(* Model of the Base ethscriptions indexer (src/worker/src/index.ts, the   *)
(* full indexer that starts at line 1325): main() drives batches of        *)
(* processBlock calls over a relational store.  Every `await` on the store *)
(* or on the RPC pool is one atomic step; the processBlock calls that      *)
(* Promise.all starts together interleave at those steps.                  *)
(***************************************************************************)
EXTENDS Integers, Sequences, FiniteSets, TLC

VARIABLES
    \* ---- the relational store
    ethscriptions,   \* base_ethscriptions: id -> row
    transfers,       \* base_transfers: append-only sequence of rows
    tokens,          \* base_tokens: tick -> row
    token_notes,     \* base_token_notes: <<tick, note_id>> -> row
    bonding_tokens,  \* base_bonding_tokens: tick -> row
    bonding_notes,   \* base_bonding_notes: <<tick, note_id>> -> row
    collections,     \* base_collections: id -> row
    collection_items,\* base_collection_items: sequence of rows
    checkpoint,      \* indexer_state['base_ethscriptions'].value, or NoValue
    \* ---- main()
    mpc,             \* position of main()
    currentBlock,    \* const currentBlock
    startBlock,      \* const startBlock
    processed,       \* let processed
    chunk,           \* i of the concurrency loop
    passes,          \* outer iterations that started processing
    procs,           \* the processBlock calls in flight: blockNum -> locals
    \* ---- environment
    chain,           \* blockNum -> block served by the RPC pool
    head,            \* chain head served by getBlockNumber
    rpcDown,         \* blocks the degraded endpoints refuse until a fetch has given up
    logsDown,        \* blocks whose provider.getLogs throws on every attempt
    endpoints,       \* endpoint -> its answer to getBlock of a block in rpcDown
    currentRpcIndex, \* let currentRpcIndex (provider = RPC_URLS[currentRpcIndex])
    START_BLOCK,     \* process.env.START_BLOCK, or NoValue
    \* ---- history
    failedBlocks,    \* blocks whose last processBlock returned without a block
    appliedBlocks,   \* blocks whose processBlock ran to the end of its logs (or that
                     \* a run of the cron indexer covered)
    snapshot,        \* the store as the first pass left it
    failedWrites     \* the store writes that returned an error: [block, write]

collTables == <<collections, collection_items>>
store == <<ethscriptions, transfers, tokens, token_notes, bonding_tokens, bonding_notes,
          collTables>>
mainVars == <<mpc, currentBlock, startBlock, processed, chunk, passes>>
envVars == <<chain, head, rpcDown, logsDown, endpoints, currentRpcIndex, START_BLOCK>>
histVars == <<failedBlocks, appliedBlocks, snapshot, failedWrites>>
vars == <<store, checkpoint, mainVars, procs, envVars, histVars>>

\* "No value": an absent checkpoint row, an unset START_BLOCK, a null log_index.
NoValue == -1
NoAddr == ""
\* A JSON value BigInt() throws on ("abc", "1.5", 1.5).
NotInteger == -2
NoId == <<>>
EmptyFn == <<>>

(***************************************************************************)
(* Bounds of the model.                                                    *)
(***************************************************************************)
MaxHead == 3      \* the chain grows to at most this head
MaxPasses == 2    \* outer iterations of main() that process blocks
BATCH_SIZE == 2   \* process.env.BATCH_SIZE as configured for the model

(***************************************************************************)
(* Program constants.                                                      *)
(***************************************************************************)
concurrency == 5
MaxTickLen == 28
retries == 3
RPC_URLS == <<"mainnet.base.org", "infura", "alchemy", "llamarpc", "publicnode">>

Min(a, b) == IF a < b THEN a ELSE b

(***************************************************************************)
(* Codec.  A decoded calldata string is a record                           *)
(*   [dataPrefix, mime, params, body]                                      *)
(* params is the sequence of ;-separated parameter tokens, body the        *)
(* payload; body.gz counts how many times the payload is gzip-compressed  *)
(* (0: gunzipSync throws on it).                                           *)
(***************************************************************************)
NoTick == [name |-> "", len |-> 0]
NoBody == [gz |-> 0, name |-> "", p |-> "", op |-> "", tick |-> NoTick,
           max |-> 0, lim |-> 0, amt |-> NoValue, base |-> 0, inc |-> 0,
           symbol |-> "", description |-> "", max_supply |-> 0, item |-> FALSE,
           collection_id |-> NoId, new_owner |-> ""]
NoText == [dataPrefix |-> FALSE, mime |-> "", params |-> <<>>, body |-> NoBody]

\* hexToUtf8: the strict UTF-8 decoding of the calldata, NoText when it fails.
hexToUtf8(data) == data.utf8

\* decodeGzipContent: a URI whose parameters hold gzip and base64 and whose
\* payload inflates is returned with the payload inflated once and with
\* params.replace(';gzip', '').replace('gzip;', ''): the first gzip parameter
\* is dropped, and then the first gzip parameter that another one follows.
\* Anything else, and a payload that does not inflate, is returned unchanged.
decodeGzipContent(dataUri) ==
    LET params == dataUri.params
        includes(ps, tok) == \E i \in 1 .. Len(ps) : ps[i] = tok
        without(ps, S) ==
            IF S = {} THEN ps
            ELSE LET i == CHOOSE k \in S : \A l \in S : k <= l
                 IN SubSeq(ps, 1, i - 1) \o SubSeq(ps, i + 1, Len(ps))
        p1 == without(params, {i \in 1 .. Len(params) : params[i] = "gzip"})
        newParams == without(p1, {i \in 1 .. Len(p1) - 1 : p1[i] = "gzip"})
    IN
    IF ~dataUri.dataPrefix THEN dataUri
    ELSE IF ~includes(params, "gzip") THEN dataUri
    ELSE IF includes(params, "base64")
         THEN IF dataUri.body.gz > 0
              THEN [dataUri EXCEPT !.params = newParams, !.body = [@ EXCEPT !.gz = @ - 1]]
              ELSE dataUri
         ELSE dataUri

\* sha256: collision-free, so the digest is determined by and determines the content.
sha256(content) == [sha |-> content]

\* hasEsip6Rule: the substring rule=esip6 anywhere in the URI.
hasEsip6Rule(content) ==
    \E i \in 1 .. Len(content.params) : content.params[i] = "rule=esip6"

\* parseProtocolJson: the JSON object of a data:application/json URI, or NoBody
\* (which has no p field set, as processProtocolHandlers tests).
parseProtocolJson(content) ==
    IF content.mime # "application/json" THEN NoBody ELSE content.body

\* let contentType = 'text/plain', replaced by the media type when the URI has one.
contentType(decodedContent) ==
    IF decodedContent.mime = "" THEN "text/plain" ELSE decodedContent.mime

\* The id of an inscription: the hash, or `${hash}-${seq}` (seq = 0: no suffix).
EthId(hash, seq) == <<hash, seq>>

(***************************************************************************)
(* Blocks.  A transaction is [from, to, data]; its calldata is             *)
(*   [utf8, hexlen, words]: the strict UTF-8 decoding (NoText when it      *)
(* fails), the number of hex digits after 0x, and the 32-byte words.       *)
(* A log is [topic0, address, a1, a2, id, uri].                            *)
(***************************************************************************)
ESIP1_TOPIC == "TransferEthscription"
ESIP2_TOPIC == "TransferEthscriptionForPreviousOwner"
ESIP3_TOPIC == "CreateEthscription"

TxHash(blockNum, i) == <<"tx", blockNum, i>>
LogTxHash(blockNum, i) == <<"logtx", blockNum, i>>

\* Classify without the test (tx.data.length - 2) % 64 === 0.
Classify_anyLength(tx) ==
    IF tx.to = NoAddr THEN "ignore"
    ELSE IF tx.from = tx.to
         THEN IF ~hexToUtf8(tx.data).dataPrefix THEN "ignore" ELSE "create"
         ELSE IF tx.data.hexlen + 2 >= 66 THEN "bulk" ELSE "ignore"
\* The branch processBlock takes for a transaction.
Classify(tx) ==
    IF tx.to = NoAddr THEN "ignore"
    ELSE IF tx.from = tx.to
         THEN IF ~hexToUtf8(tx.data).dataPrefix THEN "ignore" ELSE "create"
         ELSE IF tx.data.hexlen + 2 >= 66 /\ tx.data.hexlen % 64 = 0
              THEN "bulk" ELSE "ignore"

\* What the creation branch computes from the calldata before its first store call.
TxContent(tx) == hexToUtf8(tx.data)
TxDecoded(tx) == decodeGzipContent(TxContent(tx))
TxHashOf(tx) == sha256(TxDecoded(tx))
TxIsEsip6(tx) == hasEsip6Rule(TxContent(tx))
numHashes(tx) == tx.data.hexlen \div 64

\* What processEsip3Creation computes from the log before its first store call.
LogDecoded(log) == decodeGzipContent(log.uri)
LogHashOf(log) == sha256(LogDecoded(log))
LogIsEsip6(log) == hasEsip6Rule(log.uri)

\* A log whose handler returns before any store call.
LogIgnored(log) == log.topic0 = ESIP3_TOPIC /\ ~log.uri.dataPrefix

(***************************************************************************)
(* The locals of one processBlock call.  li = 0 while the transactions are *)
(* processed; ti, hi, li index the transaction, the hash of a bulk         *)
(* transfer, and the log.                                                  *)
(***************************************************************************)
InitWorker ==
    [pc |-> "fetch", ti |-> 1, hi |-> 1, li |-> 0,
     ep |-> 0,         \* the endpoint the pending provider.getBlock was sent to
     providerAttempt |-> 0, i |-> 0,
     seq |-> 0,        \* esip6Sequence (0: null)
     from |-> NoAddr,  \* const from = ethscription.current_owner
     minted |-> 0,     \* const minted = BigInt(token.minted)
     denom |-> 0,      \* const denomination
     noteId |-> 0,     \* const noteId
     max_supply |-> 0, \* collection.max_supply
     itemIndex |-> 0]  \* const itemIndex

Txs(b) == chain[b].txs
Logs(b) == chain[b].logs
CurTx(b) == Txs(b)[procs[b].ti]
CurLog(b) == Logs(b)[procs[b].li]
InLogs(b) == procs[b].li > 0

RECURSIVE SkipTx(_, _)
SkipTx(b, i) ==
    IF i > Len(Txs(b)) THEN i
    ELSE IF Classify(Txs(b)[i]) = "ignore" THEN SkipTx(b, i + 1) ELSE i

RECURSIVE SkipLog(_, _)
SkipLog(b, i) ==
    IF i > Len(Logs(b)) THEN i
    ELSE IF LogIgnored(Logs(b)[i]) THEN SkipLog(b, i + 1) ELSE i

\* The locals after the for-loop over txs moves to index i.
GotoTx(b, w, i) ==
    LET j == SkipTx(b, i) IN
    IF j > Len(Txs(b))
    THEN [InitWorker EXCEPT !.pc = "getLogs", !.ti = j]
    ELSE [InitWorker EXCEPT
            !.pc = IF Classify(Txs(b)[j]) = "create" THEN "createCheck" ELSE "xferSelect",
            !.ti = j]

\* The locals after the for-loop over logs moves to index i.
GotoLog(b, w, i) ==
    LET j == SkipLog(b, i) IN
    IF j > Len(Logs(b))
    THEN [InitWorker EXCEPT !.pc = "done", !.ti = w.ti, !.li = j]
    ELSE [InitWorker EXCEPT
            !.pc = CASE Logs(b)[j].topic0 = ESIP1_TOPIC -> "e1Select"
                     [] Logs(b)[j].topic0 = ESIP2_TOPIC -> "e2Select"
                     [] OTHER -> "e3Check",
            !.ti = w.ti, !.li = j]

\* The locals once the current intent (transaction or log) is finished.
NextIntent(b, w) ==
    IF w.li > 0 THEN GotoLog(b, w, w.li + 1) ELSE GotoTx(b, w, w.ti + 1)

\* The locals once the current hash of a bulk transfer is finished.
NextHash(b, w) ==
    IF w.hi < numHashes(Txs(b)[w.ti])
    THEN [w EXCEPT !.pc = "xferSelect", !.hi = w.hi + 1]
    ELSE GotoTx(b, w, w.ti + 1)

\* XferId matching the first ESIP-6 sibling of the hash when no inscription
\* has the bare hash as its id.
XferId_firstSibling(b) ==
    LET hash == IF InLogs(b) THEN CurLog(b).id ELSE CurTx(b).data.words[procs[b].hi] IN
    IF EthId(hash, 0) \notin DOMAIN ethscriptions /\ EthId(hash, 1) \in DOMAIN ethscriptions
    THEN EthId(hash, 1) ELSE EthId(hash, 0)
\* The transfer the worker is in the middle of: id, new owner, recorded from.
XferId(b) ==
    IF InLogs(b) THEN EthId(CurLog(b).id, 0)
    ELSE EthId(CurTx(b).data.words[procs[b].hi], 0)
XferTo(b) ==
    IF InLogs(b)
    THEN (IF CurLog(b).topic0 = ESIP1_TOPIC THEN CurLog(b).a1 ELSE CurLog(b).a2)
    ELSE CurTx(b).to
XferFrom(b) ==
    IF InLogs(b)
    THEN (IF CurLog(b).topic0 = ESIP1_TOPIC THEN procs[b].from ELSE CurLog(b).a1)
    ELSE CurTx(b).from

\* The inscription the worker has just created: id, owner handed to the handlers, payload.
CreatedId(b) ==
    IF InLogs(b)
    THEN EthId(LogHashOf(CurLog(b)), IF LogIsEsip6(CurLog(b)) THEN procs[b].seq ELSE 0)
    ELSE EthId(TxHashOf(CurTx(b)), IF TxIsEsip6(CurTx(b)) THEN procs[b].seq ELSE 0)
CreatedOwner(b) == IF InLogs(b) THEN CurLog(b).a1 ELSE CurTx(b).from
CreatedJson(b) ==
    parseProtocolJson(IF InLogs(b) THEN LogDecoded(CurLog(b)) ELSE TxDecoded(CurTx(b)))

SetProc(b, w) == procs' = [procs EXCEPT ![b] = w]
At(b, label) == b \in DOMAIN procs /\ procs[b].pc = label

(***************************************************************************)
(* processProtocolHandlers: the first store call of the handler the        *)
(* payload of a new inscription dispatches to, if any.  BigInt(json.amt)   *)
(* of a mint throws on a value that is no integer: processEsip3Creation    *)
(* catches the exception and returns, the creation branch of processBlock  *)
(* does not, and the processBlock call ends rejected ("threw").            *)
(***************************************************************************)
\* TokenDeployValid without the test max % lim !== 0n.
\* String.prototype.toLowerCase, on the strings the chains hold.
toLowerCase(str) ==
    CASE str = "BSCT" -> "bsct"
      [] str = "B" -> "b"
      [] OTHER -> str
\* const tick = json.tick?.toLowerCase()
tickOf(json) == [json.tick EXCEPT !.name = toLowerCase(@)]

TokenDeployValid_noDivisibility(json) ==
    ~(json.tick.len = 0 \/ json.tick.len > MaxTickLen \/ json.max <= 0 \/ json.lim <= 0)
\* TokenDeployValid with the length limit one character further.
TokenDeployValid_oneLonger(json) ==
    ~(json.tick.len = 0 \/ json.tick.len > MaxTickLen + 1 \/ json.max <= 0 \/ json.lim <= 0)
    /\ json.max % json.lim = 0
TokenDeployValid(json) ==
    ~(json.tick.len = 0 \/ json.tick.len > MaxTickLen \/ json.max <= 0 \/ json.lim <= 0)
    /\ json.max % json.lim = 0

BondingDeployValid(json) ==
    ~(json.tick.len = 0 \/ json.tick.len > MaxTickLen \/ json.max <= 0 \/ json.lim <= 0
      \/ json.base <= 0)

\* processCollectionOperation: the first store call of the branch its op takes.
processCollectionOperation(b, w, json) ==
    CASE json.op \in {"create_collection_and_add_self", "create"} ->
           [w EXCEPT !.pc = "colCreate"]
      [] json.op \in {"add_self_to_collection", "add"} ->
           IF json.collection_id # NoId THEN [w EXCEPT !.pc = "addSelect"]
           ELSE NextIntent(b, w)
      [] json.op = "edit_collection" ->
           IF json.collection_id # NoId
              /\ (json.name # "" \/ json.symbol # "" \/ json.description # "")
           THEN [w EXCEPT !.pc = "colEdit"] ELSE NextIntent(b, w)
      [] json.op = "lock_collection" ->
           IF json.collection_id # NoId THEN [w EXCEPT !.pc = "colLock"]
           ELSE NextIntent(b, w)
      [] json.op = "transfer_ownership" ->
           IF json.collection_id # NoId /\ json.new_owner # ""
           THEN [w EXCEPT !.pc = "colTransfer"] ELSE NextIntent(b, w)
      [] OTHER -> NextIntent(b, w)

processProtocolHandlers(b, w) ==
    LET json == CreatedJson(b) IN
    IF json.p = "erc-20-fixed-denomination"
    THEN (IF json.op = "deploy"
          THEN (IF TokenDeployValid(json) THEN [w EXCEPT !.pc = "tokExisting"]
                ELSE NextIntent(b, w))
          ELSE IF json.op = "mint"
               THEN (IF json.amt = NotInteger
                     THEN (IF w.li > 0 THEN NextIntent(b, w) ELSE [w EXCEPT !.pc = "threw"])
                     ELSE IF json.tick.len # 0 THEN [w EXCEPT !.pc = "mintToken"]
                     ELSE NextIntent(b, w))
               ELSE NextIntent(b, w))
    ELSE IF json.p = "erc-721-ethscriptions-collection"
    THEN processCollectionOperation(b, w, json)
    ELSE IF json.p = "erc-20-bonding-curve"
    THEN (IF json.op = "deploy"
          THEN (IF BondingDeployValid(json) THEN [w EXCEPT !.pc = "bondExisting"]
                ELSE NextIntent(b, w))
          ELSE IF json.op = "mint" /\ json.tick.len # 0
               THEN [w EXCEPT !.pc = "bmintToken"]
               ELSE NextIntent(b, w))
    ELSE NextIntent(b, w)

(***************************************************************************)
(* processBlock, one action per await.                                     *)
(***************************************************************************)
\* switchProvider: the index after one switch.
switchProvider(idx) == (idx + 1) % Len(RPC_URLS)

\* What the endpoint asked answers: the block ("ok"), a rate limit ("429"), or
\* another error or an empty response ("err").
Respond(b) == IF b \in rpcDown THEN endpoints[procs[b].ep] ELSE "ok"

\* getBlockWithRetry returns null: processBlock returns zero counters.
FetchFailed(b) ==
    /\ SetProc(b, [procs[b] EXCEPT !.pc = "done"])
    /\ rpcDown' = rpcDown \ {b}
    /\ failedBlocks' = failedBlocks \cup {b}

\* The end of one round of the providerAttempt loop with the index at idx:
\* switchProvider unless it was the last round, then the next round's first
\* provider.getBlock, or return null.
NextProvider(b, idx) ==
    LET w == procs[b]
        last == w.providerAttempt >= Len(RPC_URLS) - 1
        idx2 == IF last THEN idx ELSE switchProvider(idx)
    IN /\ currentRpcIndex' = idx2
       /\ IF last THEN FetchFailed(b)
          ELSE /\ SetProc(b, [w EXCEPT !.pc = "fetch", !.providerAttempt = @ + 1, !.i = 0,
                                       !.ep = idx2])
               /\ UNCHANGED <<rpcDown, failedBlocks>>

\* getBlockWithRetry: the answer to the pending provider.getBlock.  A block is
\* returned; a rate limit switches the provider and breaks out of the retries.
FetchBlock(b) ==
    /\ At(b, "fetch")
    /\ CASE Respond(b) = "ok" ->
               /\ SetProc(b, GotoTx(b, procs[b], 1))
               /\ failedBlocks' = failedBlocks \ {b}
               /\ UNCHANGED <<rpcDown, currentRpcIndex>>
         [] Respond(b) = "429" -> NextProvider(b, switchProvider(currentRpcIndex))
         [] OTHER ->
               /\ SetProc(b, [procs[b] EXCEPT !.pc = "fetchSleep"])
               /\ UNCHANGED <<rpcDown, currentRpcIndex, failedBlocks>>
    /\ UNCHANGED <<store, checkpoint, mainVars, chain, head, logsDown, endpoints,
                   START_BLOCK, appliedBlocks, snapshot, failedWrites>>

\* FetchBackoff with a retry loop that never counts its attempts.
FetchBackoff_uncounted(b) ==
    /\ At(b, "fetchSleep")
    /\ SetProc(b, [procs[b] EXCEPT !.pc = "fetch", !.ep = currentRpcIndex])
    /\ UNCHANGED <<rpcDown, currentRpcIndex, failedBlocks>>
    /\ UNCHANGED <<store, checkpoint, mainVars, chain, head, logsDown, endpoints,
                   START_BLOCK, appliedBlocks, snapshot, failedWrites>>
\* getBlockWithRetry: the backoff sleep is over; the next retry on the current
\* provider, or the end of the round once the retries are used up.
FetchBackoff(b) ==
    /\ At(b, "fetchSleep")
    /\ IF procs[b].i + 1 < retries
       THEN /\ SetProc(b, [procs[b] EXCEPT !.pc = "fetch", !.i = @ + 1, !.ep = currentRpcIndex])
            /\ UNCHANGED <<rpcDown, currentRpcIndex, failedBlocks>>
       ELSE NextProvider(b, currentRpcIndex)
    /\ UNCHANGED <<store, checkpoint, mainVars, chain, head, logsDown, endpoints,
                   START_BLOCK, appliedBlocks, snapshot, failedWrites>>

\* Creation: the uniqueness select, or the ESIP-6 count.
CreateCheck(b) ==
    /\ At(b, "createCheck")
    /\ LET tx == CurTx(b)
           hash == TxHashOf(tx)
           existing == EthId(hash, 0) \in DOMAIN ethscriptions
           count == Cardinality({id \in DOMAIN ethscriptions : id = EthId(hash, 0)})
       IN IF ~TxIsEsip6(tx)
          THEN SetProc(b, IF existing THEN NextIntent(b, procs[b])
                          ELSE [procs[b] EXCEPT !.pc = "createInsert"])
          ELSE SetProc(b, [procs[b] EXCEPT !.pc = "createInsert", !.seq = count + 1])
    /\ UNCHANGED <<store, checkpoint, mainVars, envVars, histVars>>

\* CreateInsert calling the protocol handlers whether or not the insert succeeded.
CreateInsert_alwaysHandles(b) ==
    /\ At(b, "createInsert")
    /\ LET tx == CurTx(b)
           id == CreatedId(b)
       IN /\ ethscriptions' = IF id \in DOMAIN ethscriptions THEN ethscriptions
                               ELSE ethscriptions @@
                     (id :> [creator |-> tx.from, current_owner |-> tx.from,
                             creation_tx |-> TxHash(b, procs[b].ti), creation_block |-> b,
                             content_type |-> contentType(TxDecoded(tx)),
                             esip6 |-> TxIsEsip6(tx), esip6_sequence |-> procs[b].seq,
                             created_by_contract |-> FALSE, creator_contract |-> NoAddr])
          /\ SetProc(b, processProtocolHandlers(b, procs[b]))
    /\ UNCHANGED <<collTables, transfers, tokens, token_notes, bonding_tokens, bonding_notes,
                   checkpoint, mainVars, envVars, histVars>>
\* Creation: the insert, refused by the primary key when the id is taken.
CreateInsert(b) ==
    /\ At(b, "createInsert")
    /\ LET tx == CurTx(b)
           id == CreatedId(b)
       IN IF id \in DOMAIN ethscriptions
          THEN /\ SetProc(b, NextIntent(b, procs[b]))
               /\ UNCHANGED ethscriptions
          ELSE /\ ethscriptions' = ethscriptions @@
                     (id :> [creator |-> tx.from, current_owner |-> tx.from,
                             creation_tx |-> TxHash(b, procs[b].ti), creation_block |-> b,
                             content_type |-> contentType(TxDecoded(tx)),
                             esip6 |-> TxIsEsip6(tx), esip6_sequence |-> procs[b].seq,
                             created_by_contract |-> FALSE, creator_contract |-> NoAddr])
               /\ SetProc(b, processProtocolHandlers(b, procs[b]))
    /\ UNCHANGED <<collTables, transfers, tokens, token_notes, bonding_tokens, bonding_notes,
                   checkpoint, mainVars, envVars, histVars>>

\* OwnedBy without the owner filter.
OwnedBy_anyOwner(id, from) == id \in DOMAIN ethscriptions
\* OwnedBy answering for every id.
OwnedBy_always(id, from) == TRUE
\* select('id').eq('id', hash).eq('current_owner', from).single() finds a row.
OwnedBy(id, from) ==
    id \in DOMAIN ethscriptions /\ ethscriptions[id].current_owner = from

\* Transfer by calldata (ESIP-5): select the inscription by id and current owner.
XferSelect(b) ==
    /\ At(b, "xferSelect")
    /\ SetProc(b, IF OwnedBy(XferId(b), CurTx(b).from)
                  THEN [procs[b] EXCEPT !.pc = "xferUpdate"]
                  ELSE NextHash(b, procs[b]))
    /\ UNCHANGED <<store, checkpoint, mainVars, envVars, histVars>>

\* UpdateOwner writing the new owner into creator as well.
UpdateOwner_rewritesCreator(id, to) ==
    ethscriptions' = [x \in DOMAIN ethscriptions |->
                        IF x = id THEN [ethscriptions[x] EXCEPT !.current_owner = to,
                                                                !.creator = to]
                        ELSE ethscriptions[x]]
\* update({ current_owner }).eq('id', id): shared by the three kinds of transfer.
UpdateOwner(id, to) ==
    ethscriptions' = [x \in DOMAIN ethscriptions |->
                        IF x = id THEN [ethscriptions[x] EXCEPT !.current_owner = to]
                        ELSE ethscriptions[x]]

XferUpdate(b) ==
    /\ At(b, "xferUpdate")
    /\ UpdateOwner(XferId(b), XferTo(b))
    /\ SetProc(b, [procs[b] EXCEPT !.pc = "xferInsert"])
    /\ UNCHANGED <<collTables, transfers, tokens, token_notes, bonding_tokens, bonding_notes,
                   checkpoint, mainVars, envVars, histVars>>

TransferRow(b) ==
    [ethscription_id |-> XferId(b), from_address |-> XferFrom(b), to_address |-> XferTo(b),
     tx_hash |-> IF InLogs(b) THEN LogTxHash(b, procs[b].li) ELSE TxHash(b, procs[b].ti),
     block_number |-> b,
     transfer_type |-> IF ~InLogs(b) THEN "eoa"
                       ELSE IF CurLog(b).topic0 = ESIP1_TOPIC THEN "esip1" ELSE "esip2",
     log_index |-> IF InLogs(b) THEN procs[b].li ELSE NoValue,
     contract_address |-> IF InLogs(b) THEN CurLog(b).address ELSE NoAddr]

XferInsert(b) ==
    /\ At(b, "xferInsert")
    /\ transfers' = Append(transfers, TransferRow(b))
    /\ SetProc(b, [procs[b] EXCEPT !.pc = "syncFixed"])
    /\ UNCHANGED <<collTables, ethscriptions, tokens, token_notes, bonding_tokens, bonding_notes,
                   checkpoint, mainVars, envVars, histVars>>

\* syncTokenNoteOwnership, first update: base_token_notes.
SyncFixed(b) ==
    /\ At(b, "syncFixed")
    /\ token_notes' = [k \in DOMAIN token_notes |->
                         IF token_notes[k].ethscription_id = XferId(b)
                         THEN [token_notes[k] EXCEPT !.owner = XferTo(b)]
                         ELSE token_notes[k]]
    /\ SetProc(b, [procs[b] EXCEPT !.pc = "syncBonding"])
    /\ UNCHANGED <<collTables, ethscriptions, transfers, tokens, bonding_tokens, bonding_notes,
                   checkpoint, mainVars, envVars, histVars>>

\* syncTokenNoteOwnership, second update: base_bonding_notes; the transfer is done.
SyncBonding(b) ==
    /\ At(b, "syncBonding")
    /\ bonding_notes' = [k \in DOMAIN bonding_notes |->
                           IF bonding_notes[k].ethscription_id = XferId(b)
                           THEN [bonding_notes[k] EXCEPT !.owner = XferTo(b)]
                           ELSE bonding_notes[k]]
    /\ SetProc(b, IF InLogs(b) THEN NextIntent(b, procs[b]) ELSE NextHash(b, procs[b]))
    /\ UNCHANGED <<collTables, ethscriptions, transfers, tokens, token_notes, bonding_tokens,
                   checkpoint, mainVars, envVars, histVars>>

(***************************************************************************)
(* processTokenOperation (erc-20-fixed-denomination).                      *)
(***************************************************************************)
\* deploy: select the tick.
TokExisting(b) ==
    /\ At(b, "tokExisting")
    /\ SetProc(b, IF tickOf(CreatedJson(b)) \in DOMAIN tokens THEN NextIntent(b, procs[b])
                  ELSE [procs[b] EXCEPT !.pc = "tokInsert"])
    /\ UNCHANGED <<store, checkpoint, mainVars, envVars, histVars>>

\* deploy: insert the token row (the tick is its key).
TokInsert(b) ==
    /\ At(b, "tokInsert")
    /\ LET json == CreatedJson(b) IN
       tokens' = IF tickOf(json) \in DOMAIN tokens THEN tokens
                 ELSE tokens @@ (tickOf(json) :> [max_supply |-> json.max,
                                                denomination |-> json.lim, minted |-> 0])
    /\ SetProc(b, NextIntent(b, procs[b]))
    /\ UNCHANGED <<collTables, ethscriptions, transfers, token_notes, bonding_tokens, bonding_notes,
                   checkpoint, mainVars, envVars, histVars>>

\* const mintAmount = amt || denomination, with amt = json.amt ? BigInt(json.amt) : null.
\* (json.amt absent is NoValue; 0n is falsy, so amt = "0" also falls back to the denomination)
mintAmount(json, denomination) ==
    IF json.amt = NoValue THEN denomination
    ELSE IF json.amt = 0 THEN denomination ELSE json.amt

\* mint: select the token, check the amount and the supply against what was read.
MintToken(b) ==
    /\ At(b, "mintToken")
    /\ LET json == CreatedJson(b) IN
       IF tickOf(json) \notin DOMAIN tokens
       THEN SetProc(b, NextIntent(b, procs[b]))
       ELSE LET token == tokens[tickOf(json)]
                amount == mintAmount(json, token.denomination)
            IN IF amount # token.denomination \/ token.minted + amount > token.max_supply
               THEN SetProc(b, NextIntent(b, procs[b]))
               ELSE SetProc(b, [procs[b] EXCEPT !.pc = "mintCount", !.minted = token.minted,
                                                !.denom = amount])
    /\ UNCHANGED <<store, checkpoint, mainVars, envVars, histVars>>

\* mint: count the notes of the tick for the next note id.
MintCount(b) ==
    /\ At(b, "mintCount")
    /\ LET count == Cardinality({k \in DOMAIN token_notes : k[1] = tickOf(CreatedJson(b))}) IN
       SetProc(b, [procs[b] EXCEPT !.pc = "mintInsert", !.noteId = count + 1])
    /\ UNCHANGED <<store, checkpoint, mainVars, envVars, histVars>>

\* mint: insert the note; (tick, note_id) is the key of the notes table.
MintInsert(b) ==
    /\ At(b, "mintInsert")
    /\ LET key == <<tickOf(CreatedJson(b)), procs[b].noteId>> IN
       IF key \in DOMAIN token_notes
       THEN /\ SetProc(b, NextIntent(b, procs[b]))
            /\ UNCHANGED token_notes
       ELSE /\ token_notes' = token_notes @@
                  (key :> [ethscription_id |-> CreatedId(b), owner |-> CreatedOwner(b),
                           amount |-> procs[b].denom])
            /\ SetProc(b, [procs[b] EXCEPT !.pc = "mintUpdate"])
    /\ UNCHANGED <<collTables, ethscriptions, transfers, tokens, bonding_tokens, bonding_notes,
                   checkpoint, mainVars, envVars, histVars>>

\* mint: write minted = (the minted read by MintToken) + mintAmount.
MintUpdate(b) ==
    /\ At(b, "mintUpdate")
    /\ LET tick == tickOf(CreatedJson(b)) IN
       tokens' = [t \in DOMAIN tokens |->
                    IF t = tick THEN [tokens[t] EXCEPT !.minted = procs[b].minted + procs[b].denom]
                    ELSE tokens[t]]
    /\ SetProc(b, NextIntent(b, procs[b]))
    /\ UNCHANGED <<collTables, ethscriptions, transfers, token_notes, bonding_tokens, bonding_notes,
                   checkpoint, mainVars, envVars, histVars>>

(***************************************************************************)
(* processCollectionOperation (erc-721-ethscriptions-collection) and       *)
(* addCollectionItem.                                                      *)
(***************************************************************************)
\* create: insert the collection under the id of its inscription.
ColCreate(b) ==
    /\ At(b, "colCreate")
    /\ LET json == CreatedJson(b)
           id == CreatedId(b)
       IN IF id \in DOMAIN collections
          THEN /\ UNCHANGED collections
               /\ SetProc(b, NextIntent(b, procs[b]))
          ELSE /\ collections' = collections @@
                     (id :> [name |-> json.name, symbol |-> json.symbol,
                             description |-> json.description,
                             max_supply |-> json.max_supply, owner |-> CreatedOwner(b),
                             locked |-> FALSE])
               /\ SetProc(b, IF json.op = "create_collection_and_add_self" /\ json.item
                             THEN [procs[b] EXCEPT !.pc = "addSelect"]
                             ELSE NextIntent(b, procs[b]))
    /\ UNCHANGED <<ethscriptions, transfers, tokens, token_notes, bonding_tokens,
                   bonding_notes, collection_items, checkpoint, mainVars, envVars, histVars>>

\* The rows update(...).eq('id', collectionId).eq('owner', owner) changes.
OwnedCollection(b, id) ==
    id = CreatedJson(b).collection_id /\ collections[id].owner = CreatedOwner(b)

\* ColEdit writing locked along with the fields the payload sets.
ColEdit_unlocking(b) ==
    /\ At(b, "colEdit")
    /\ LET json == CreatedJson(b) IN
       collections' =
         [id \in DOMAIN collections |->
            IF OwnedCollection(b, id)
            THEN [collections[id] EXCEPT
                    !.name = IF json.name # "" THEN json.name ELSE @,
                    !.symbol = IF json.symbol # "" THEN json.symbol ELSE @,
                    !.description = IF json.description # "" THEN json.description ELSE @,
                    !.locked = FALSE]
            ELSE collections[id]]
    /\ SetProc(b, NextIntent(b, procs[b]))
    /\ UNCHANGED <<ethscriptions, transfers, tokens, token_notes, bonding_tokens,
                   bonding_notes, collection_items, checkpoint, mainVars, envVars, histVars>>
\* edit_collection: write the fields the payload sets.
ColEdit(b) ==
    /\ At(b, "colEdit")
    /\ LET json == CreatedJson(b) IN
       collections' =
         [id \in DOMAIN collections |->
            IF OwnedCollection(b, id)
            THEN [collections[id] EXCEPT
                    !.name = IF json.name # "" THEN json.name ELSE @,
                    !.symbol = IF json.symbol # "" THEN json.symbol ELSE @,
                    !.description = IF json.description # "" THEN json.description ELSE @]
            ELSE collections[id]]
    /\ SetProc(b, NextIntent(b, procs[b]))
    /\ UNCHANGED <<ethscriptions, transfers, tokens, token_notes, bonding_tokens,
                   bonding_notes, collection_items, checkpoint, mainVars, envVars, histVars>>

\* lock_collection: update({ locked: true }).
ColLock(b) ==
    /\ At(b, "colLock")
    /\ collections' = [id \in DOMAIN collections |->
                         IF OwnedCollection(b, id)
                         THEN [collections[id] EXCEPT !.locked = TRUE]
                         ELSE collections[id]]
    /\ SetProc(b, NextIntent(b, procs[b]))
    /\ UNCHANGED <<ethscriptions, transfers, tokens, token_notes, bonding_tokens,
                   bonding_notes, collection_items, checkpoint, mainVars, envVars, histVars>>

\* transfer_ownership: update({ owner: newOwner.toLowerCase() }).
ColTransfer(b) ==
    /\ At(b, "colTransfer")
    /\ collections' = [id \in DOMAIN collections |->
                         IF OwnedCollection(b, id)
                         THEN [collections[id] EXCEPT
                                 !.owner = toLowerCase(CreatedJson(b).new_owner)]
                         ELSE collections[id]]
    /\ SetProc(b, NextIntent(b, procs[b]))
    /\ UNCHANGED <<ethscriptions, transfers, tokens, token_notes, bonding_tokens,
                   bonding_notes, collection_items, checkpoint, mainVars, envVars, histVars>>

\* The collection addCollectionItem is called with.
AddTo(b) ==
    IF CreatedJson(b).op = "create_collection_and_add_self" THEN CreatedId(b)
    ELSE CreatedJson(b).collection_id

\* addCollectionItem: select the collection; return when it is missing or locked.
AddSelect(b) ==
    /\ At(b, "addSelect")
    /\ SetProc(b, IF AddTo(b) \notin DOMAIN collections \/ collections[AddTo(b)].locked
                  THEN NextIntent(b, procs[b])
                  ELSE [procs[b] EXCEPT !.pc = "addCount",
                                        !.max_supply = collections[AddTo(b)].max_supply])
    /\ UNCHANGED <<store, checkpoint, mainVars, envVars, histVars>>

\* addCollectionItem: count the items for the next index; return when full.
AddCount(b) ==
    /\ At(b, "addCount")
    /\ LET count == Cardinality({k \in 1 .. Len(collection_items) :
                                   collection_items[k].collection_id = AddTo(b)})
           itemIndex == count + 1
       IN SetProc(b, IF procs[b].max_supply # 0 /\ itemIndex > procs[b].max_supply
                     THEN NextIntent(b, procs[b])
                     ELSE [procs[b] EXCEPT !.pc = "addInsert", !.itemIndex = itemIndex])
    /\ UNCHANGED <<store, checkpoint, mainVars, envVars, histVars>>

\* addCollectionItem: insert the item row.  No schema comes with the source:
\* when the collection already has an item with that index the insert either
\* adds a second one or is refused by a key on (collection_id, item_index).
AddInsert(b) ==
    /\ At(b, "addInsert")
    /\ \E refused \in BOOLEAN :
          collection_items' =
             IF /\ refused
                /\ \E k \in 1 .. Len(collection_items) :
                      /\ collection_items[k].collection_id = AddTo(b)
                      /\ collection_items[k].item_index = procs[b].itemIndex
             THEN collection_items
             ELSE Append(collection_items,
                         [collection_id |-> AddTo(b), ethscription_id |-> CreatedId(b),
                          item_index |-> procs[b].itemIndex])
    /\ SetProc(b, NextIntent(b, procs[b]))
    /\ UNCHANGED <<ethscriptions, transfers, tokens, token_notes, bonding_tokens,
                   bonding_notes, collections, checkpoint, mainVars, envVars, histVars>>

(***************************************************************************)
(* processBondingCurveOperation (erc-20-bonding-curve).                    *)
(***************************************************************************)
BondExisting(b) ==
    /\ At(b, "bondExisting")
    /\ SetProc(b, IF tickOf(CreatedJson(b)) \in DOMAIN bonding_tokens THEN NextIntent(b, procs[b])
                  ELSE [procs[b] EXCEPT !.pc = "bondInsert"])
    /\ UNCHANGED <<store, checkpoint, mainVars, envVars, histVars>>

BondInsert(b) ==
    /\ At(b, "bondInsert")
    /\ LET json == CreatedJson(b) IN
       bonding_tokens' =
         IF tickOf(json) \in DOMAIN bonding_tokens THEN bonding_tokens
         ELSE bonding_tokens @@
                (tickOf(json) :> [max_supply |-> json.max, denomination |-> json.lim,
                               base_price |-> json.base, price_increment |-> json.inc,
                               minted |-> 0, reserve |-> 0])
    /\ SetProc(b, NextIntent(b, procs[b]))
    /\ UNCHANGED <<collTables, ethscriptions, transfers, tokens, token_notes, bonding_notes,
                   checkpoint, mainVars, envVars, histVars>>

BmintToken(b) ==
    /\ At(b, "bmintToken")
    /\ LET json == CreatedJson(b) IN
       IF tickOf(json) \notin DOMAIN bonding_tokens
       THEN SetProc(b, NextIntent(b, procs[b]))
       ELSE LET token == bonding_tokens[tickOf(json)] IN
            IF token.minted + token.denomination > token.max_supply
            THEN SetProc(b, NextIntent(b, procs[b]))
            ELSE SetProc(b, [procs[b] EXCEPT !.pc = "bmintCount", !.minted = token.minted,
                                             !.denom = token.denomination])
    /\ UNCHANGED <<store, checkpoint, mainVars, envVars, histVars>>

BmintCount(b) ==
    /\ At(b, "bmintCount")
    /\ LET count == Cardinality({k \in DOMAIN bonding_notes : k[1] = tickOf(CreatedJson(b))}) IN
       SetProc(b, [procs[b] EXCEPT !.pc = "bmintInsert", !.noteId = count + 1])
    /\ UNCHANGED <<store, checkpoint, mainVars, envVars, histVars>>

BmintInsert(b) ==
    /\ At(b, "bmintInsert")
    /\ LET key == <<tickOf(CreatedJson(b)), procs[b].noteId>> IN
       IF key \in DOMAIN bonding_notes
       THEN /\ SetProc(b, NextIntent(b, procs[b]))
            /\ UNCHANGED bonding_notes
       ELSE /\ bonding_notes' = bonding_notes @@
                  (key :> [ethscription_id |-> CreatedId(b), owner |-> CreatedOwner(b),
                           amount |-> procs[b].denom])
            /\ SetProc(b, [procs[b] EXCEPT !.pc = "bmintUpdate"])
    /\ UNCHANGED <<collTables, ethscriptions, transfers, tokens, token_notes, bonding_tokens,
                   checkpoint, mainVars, envVars, histVars>>

BmintUpdate(b) ==
    /\ At(b, "bmintUpdate")
    /\ LET tick == tickOf(CreatedJson(b)) IN
       bonding_tokens' =
         [t \in DOMAIN bonding_tokens |->
            IF t = tick
            THEN [bonding_tokens[t] EXCEPT !.minted = procs[b].minted + procs[b].denom]
            ELSE bonding_tokens[t]]
    /\ SetProc(b, NextIntent(b, procs[b]))
    /\ UNCHANGED <<collTables, ethscriptions, transfers, tokens, token_notes, bonding_notes,
                   checkpoint, mainVars, envVars, histVars>>

(***************************************************************************)
(* The event logs of the block (ESIP-1, ESIP-2, ESIP-3).                   *)
(***************************************************************************)
\* getBlockLogsWithRetry, then the for-loop over the logs.
GetLogs(b) ==
    /\ At(b, "getLogs")
    /\ IF b \notin logsDown
       THEN /\ SetProc(b, GotoLog(b, procs[b], 1))
            /\ UNCHANGED currentRpcIndex
       ELSE /\ SetProc(b, [procs[b] EXCEPT !.pc = "logsSleep"])
            /\ \E e \in {"429", "err"} :
                  currentRpcIndex' = IF e = "429" THEN switchProvider(currentRpcIndex)
                                     ELSE currentRpcIndex
    /\ UNCHANGED <<store, checkpoint, mainVars, chain, head, rpcDown, logsDown, endpoints,
                   START_BLOCK, histVars>>

\* getBlockLogsWithRetry: the backoff sleep is over; the next attempt, or
\* `return []` once the retries are used up, and the loop over no log ends.
LogsBackoff(b) ==
    /\ At(b, "logsSleep")
    /\ SetProc(b, IF procs[b].i + 1 < retries
                  THEN [procs[b] EXCEPT !.pc = "getLogs", !.i = @ + 1]
                  ELSE [InitWorker EXCEPT !.pc = "done", !.ti = procs[b].ti, !.li = 1])
    /\ UNCHANGED <<store, checkpoint, mainVars, envVars, histVars>>

\* processEsip1Transfer: select the inscription; from is whatever owner it has.
\* E1Select applying the transfer only to what the emitting contract owns.
E1Select_ownedByContract(b) ==
    /\ At(b, "e1Select")
    /\ LET id == XferId(b) IN
       SetProc(b, IF ~OwnedBy(id, CurLog(b).address) THEN NextIntent(b, procs[b])
                  ELSE [procs[b] EXCEPT !.pc = "xferUpdate",
                                        !.from = ethscriptions[id].current_owner])
    /\ UNCHANGED <<store, checkpoint, mainVars, envVars, histVars>>
\* processEsip1Transfer: the select; from is the owner it returned.
E1Select(b) ==
    /\ At(b, "e1Select")
    /\ LET id == XferId(b) IN
       SetProc(b, IF id \notin DOMAIN ethscriptions THEN NextIntent(b, procs[b])
                  ELSE [procs[b] EXCEPT !.pc = "xferUpdate",
                                        !.from = ethscriptions[id].current_owner])
    /\ UNCHANGED <<store, checkpoint, mainVars, envVars, histVars>>

\* processEsip2Transfer: select the inscription; its owner must be previousOwner.
\* E2Select without the comparison of current_owner with previousOwner.
E2Select_anyOwner(b) ==
    /\ At(b, "e2Select")
    /\ LET id == XferId(b) IN
       SetProc(b, IF id \notin DOMAIN ethscriptions THEN NextIntent(b, procs[b])
                  ELSE [procs[b] EXCEPT !.pc = "xferUpdate"])
    /\ UNCHANGED <<store, checkpoint, mainVars, envVars, histVars>>
\* processEsip2Transfer: the select and the comparison with previousOwner.
E2Select(b) ==
    /\ At(b, "e2Select")
    /\ LET id == XferId(b) IN
       SetProc(b, IF id \notin DOMAIN ethscriptions THEN NextIntent(b, procs[b])
                  ELSE IF ethscriptions[id].current_owner # CurLog(b).a1
                       THEN NextIntent(b, procs[b])
                       ELSE [procs[b] EXCEPT !.pc = "xferUpdate"])
    /\ UNCHANGED <<store, checkpoint, mainVars, envVars, histVars>>

\* processEsip3Creation: the uniqueness select, or the ESIP-6 count.
E3Check(b) ==
    /\ At(b, "e3Check")
    /\ LET log == CurLog(b)
           hash == LogHashOf(log)
           existing == EthId(hash, 0) \in DOMAIN ethscriptions
           count == Cardinality({id \in DOMAIN ethscriptions : id = EthId(hash, 0)})
       IN IF ~LogIsEsip6(log)
          THEN SetProc(b, IF existing THEN NextIntent(b, procs[b])
                          ELSE [procs[b] EXCEPT !.pc = "e3Insert"])
          ELSE SetProc(b, [procs[b] EXCEPT !.pc = "e3Insert", !.seq = count + 1])
    /\ UNCHANGED <<store, checkpoint, mainVars, envVars, histVars>>

\* Esip3Row without created_by_contract and creator_contract.
Esip3Row_asCalldataCreate(b) ==
    LET log == CurLog(b) IN
    [creator |-> log.address, current_owner |-> log.a1,
     creation_tx |-> LogTxHash(b, procs[b].li), creation_block |-> b,
     content_type |-> contentType(LogDecoded(log)),
     esip6 |-> LogIsEsip6(log), esip6_sequence |-> procs[b].seq,
     created_by_contract |-> FALSE, creator_contract |-> NoAddr]
\* Esip3Row with the emitting contract as the owner.
Esip3Row_ownedByContract(b) ==
    LET log == CurLog(b) IN
    [creator |-> log.address, current_owner |-> log.address,
     creation_tx |-> LogTxHash(b, procs[b].li), creation_block |-> b,
     content_type |-> contentType(LogDecoded(log)),
     esip6 |-> LogIsEsip6(log), esip6_sequence |-> procs[b].seq,
     created_by_contract |-> TRUE, creator_contract |-> log.address]
\* The row processEsip3Creation inserts: the emitting contract is the creator,
\* the initialOwner topic the owner.
Esip3Row(b) ==
    LET log == CurLog(b) IN
    [creator |-> log.address, current_owner |-> log.a1,
     creation_tx |-> LogTxHash(b, procs[b].li), creation_block |-> b,
     content_type |-> contentType(LogDecoded(log)),
     esip6 |-> LogIsEsip6(log), esip6_sequence |-> procs[b].seq,
     created_by_contract |-> TRUE, creator_contract |-> log.address]

\* processEsip3Creation: the insert, refused by the primary key when the id is
\* taken, then the protocol handlers.
E3Insert(b) ==
    /\ At(b, "e3Insert")
    /\ LET log == CurLog(b)
           id == CreatedId(b)
       IN IF id \in DOMAIN ethscriptions
          THEN /\ SetProc(b, NextIntent(b, procs[b]))
               /\ UNCHANGED ethscriptions
          ELSE /\ ethscriptions' = ethscriptions @@ (id :> Esip3Row(b))
               /\ SetProc(b, processProtocolHandlers(b, procs[b]))
    /\ UNCHANGED <<collTables, transfers, tokens, token_notes, bonding_tokens, bonding_notes,
                   checkpoint, mainVars, envVars, histVars>>

(***************************************************************************)
(* A store write that returns { error }: the table is left as it was and   *)
(* the caller goes on as its code does with that result.                   *)
(***************************************************************************)
WriteFails(b) ==
    /\ b \in DOMAIN procs
    /\ procs[b].pc \in {"createInsert", "e3Insert", "xferUpdate", "xferInsert",
                        "tokInsert", "mintInsert", "mintUpdate"}
    /\ failedWrites' = failedWrites \cup {[block |-> b, write |-> procs[b].pc]}
    /\ SetProc(b, CASE procs[b].pc = "xferUpdate" -> [procs[b] EXCEPT !.pc = "xferInsert"]
                    [] procs[b].pc = "xferInsert" -> [procs[b] EXCEPT !.pc = "syncFixed"]
                    [] OTHER -> NextIntent(b, procs[b]))
    /\ UNCHANGED <<store, checkpoint, mainVars, envVars, failedBlocks, appliedBlocks,
                   snapshot>>

(***************************************************************************)
(* main().                                                                 *)
(***************************************************************************)
Quiet == procs = EmptyFn

\* const currentBlock = await getBlockNumberWithFallback()
GetHead ==
    /\ mpc = "head"
    /\ currentBlock' = head
    /\ mpc' = "start"
    /\ UNCHANGED <<store, checkpoint, startBlock, processed, chunk, passes, procs,
                   envVars, histVars>>

\* getStartBlock: START_BLOCK if set, else the saved checkpoint, else 0.
getStartBlock ==
    IF START_BLOCK # NoValue THEN START_BLOCK
    ELSE IF checkpoint # NoValue THEN checkpoint ELSE 0

\* const startBlock = await getStartBlock(), and the caught-up test.
GetStartBlock ==
    /\ mpc = "start"
    /\ startBlock' = getStartBlock
    /\ IF getStartBlock >= currentBlock
       THEN /\ mpc' = "head"
            /\ UNCHANGED <<processed, passes>>
       ELSE /\ passes < MaxPasses
            /\ mpc' = "batch"
            /\ processed' = getStartBlock
            /\ passes' = passes + 1
    /\ UNCHANGED <<store, checkpoint, currentBlock, chunk, procs, envVars, histVars>>

batchEnd == Min(processed + BATCH_SIZE, currentBlock)
\* blockNums.slice(i, i + concurrency)
batch(i) == {n \in processed .. batchEnd - 1 : processed + i <= n /\ n < processed + i + concurrency}

\* Promise.all(batch.map(blockNum => processBlock(blockNum))): start the calls.
StartChunk ==
    /\ mpc = "batch"
    /\ procs' = [n \in batch(chunk) |-> [InitWorker EXCEPT !.ep = currentRpcIndex]]
    /\ mpc' = "await"
    /\ UNCHANGED <<store, checkpoint, currentBlock, startBlock, processed, chunk, passes,
                   envVars, histVars>>

\* JoinChunk with Promise.race in the place of Promise.all: main() goes on as
\* soon as one call of the slice has returned, the others still running.
JoinChunk_race ==
    /\ mpc = "await"
    /\ \E n \in DOMAIN procs : procs[n].pc = "done"
    /\ procs' = [n \in {l \in DOMAIN procs : procs[l].pc # "done"} |-> procs[n]]
    /\ appliedBlocks' = appliedBlocks \cup
                           ({n \in DOMAIN procs : procs[n].pc = "done"} \ failedBlocks)
    /\ IF chunk + concurrency < batchEnd - processed
       THEN /\ chunk' = chunk + concurrency
            /\ mpc' = "batch"
            /\ UNCHANGED processed
       ELSE /\ chunk' = 0
            /\ mpc' = "save"
            /\ processed' = batchEnd
    /\ UNCHANGED <<store, checkpoint, currentBlock, startBlock, passes, envVars,
                   failedBlocks, snapshot, failedWrites>>
\* Promise.all settles.  Resolved: the next slice of the batch, or
\* processed = batchEnd.  Rejected by a processBlock call that threw: main()
\* rejects, main().catch(console.error) logs it, and the calls still in flight
\* run on with nobody awaiting them.
JoinChunk ==
    /\ mpc = "await"
    /\ IF \E n \in DOMAIN procs : procs[n].pc = "threw"
       THEN /\ mpc' = "rejected"
            /\ UNCHANGED <<procs, appliedBlocks, chunk, processed>>
       ELSE /\ \A n \in DOMAIN procs : procs[n].pc = "done"
            /\ procs' = EmptyFn
            /\ appliedBlocks' = appliedBlocks \cup (DOMAIN procs \ failedBlocks)
            /\ IF chunk + concurrency < batchEnd - processed
               THEN /\ chunk' = chunk + concurrency
                    /\ mpc' = "batch"
                    /\ UNCHANGED processed
               ELSE /\ chunk' = 0
                    /\ mpc' = "save"
                    /\ processed' = batchEnd
    /\ UNCHANGED <<store, checkpoint, currentBlock, startBlock, passes, envVars,
                   failedBlocks, snapshot, failedWrites>>

\* indexer_state.upsert({ value: processed }), then the loop tests.
SaveCheckpoint ==
    /\ mpc = "save"
    /\ checkpoint' = processed
    /\ mpc' = IF processed < currentBlock THEN "batch" ELSE "head"
    /\ snapshot' = IF processed >= currentBlock /\ passes = 1
                   THEN [taken |-> TRUE, from |-> startBlock, upto |-> currentBlock,
                         store |-> store]
                   ELSE snapshot
    /\ UNCHANGED <<store, currentBlock, startBlock, processed, chunk, passes, procs,
                   envVars, failedBlocks, appliedBlocks, failedWrites>>

\* The chain grows while main() sleeps between two outer iterations.
NewBlock ==
    /\ mpc = "head"
    /\ head < MaxHead
    /\ head' = head + 1
    /\ UNCHANGED <<store, checkpoint, mainVars, procs, chain, rpcDown, logsDown,
                   endpoints, currentRpcIndex, START_BLOCK, histVars>>

(***************************************************************************)
(* The cron indexer (src/indexer-worker/src/index.ts): one run of          *)
(* indexBlocks, taken while main() sleeps between two outer iterations.    *)
(* It reads the same indexer_state row as the last block indexed, inserts  *)
(* the Creates of the blocks after it up to the head, the head included,   *)
(* under the hash of the calldata, and PATCHes the row (which changes      *)
(* nothing when there is no row) to the last block of the run.             *)
(***************************************************************************)
indexBlocks ==
    LET lastBlock == IF checkpoint = NoValue THEN 0 ELSE checkpoint
        endBlock == Min((lastBlock + 1) + 100 - 1, head)
        blocks == {n \in lastBlock + 1 .. endBlock : n \in DOMAIN chain}
        found == {<<n, i>> \in blocks \X (1 .. 4) :
                     /\ i <= Len(chain[n].txs)
                     /\ chain[n].txs[i].to # NoAddr
                     /\ chain[n].txs[i].from = chain[n].txs[i].to
                     /\ chain[n].txs[i].data.hexlen + 2 >= 10
                     /\ chain[n].txs[i].data.utf8.dataPrefix}
        idOf(f) == EthId(sha256(chain[f[1]].txs[f[2]].data), 0)
        first(id) == CHOOSE f \in found :
                        /\ idOf(f) = id
                        /\ \A g \in found : idOf(g) = id => <<f[1], f[2]>> = <<g[1], g[2]>>
                                                  \/ f[1] < g[1] \/ (f[1] = g[1] /\ f[2] < g[2])
        new == {idOf(f) : f \in found} \ DOMAIN ethscriptions
    IN /\ mpc = "head" /\ Quiet
       /\ lastBlock < head
       /\ ethscriptions' = ethscriptions @@
             [id \in new |->
                LET tx == chain[first(id)[1]].txs[first(id)[2]] IN
                [creator |-> tx.from, current_owner |-> tx.from,
                 creation_tx |-> TxHash(first(id)[1], first(id)[2]),
                 creation_block |-> first(id)[1],
                 content_type |-> contentType(TxContent(tx)),
                 esip6 |-> FALSE, esip6_sequence |-> 0,
                 created_by_contract |-> FALSE, creator_contract |-> NoAddr]]
       /\ checkpoint' = IF checkpoint = NoValue THEN checkpoint ELSE endBlock
       /\ appliedBlocks' = appliedBlocks \cup (lastBlock + 1 .. endBlock)
       /\ UNCHANGED <<collTables, transfers, tokens, token_notes, bonding_tokens,
                      bonding_notes, mainVars, procs, envVars, failedBlocks, snapshot,
                      failedWrites>>

Next ==
    \/ GetHead \/ GetStartBlock \/ StartChunk \/ JoinChunk \/ SaveCheckpoint \/ NewBlock
    \/ \E b \in DOMAIN procs : FetchBlock(b)
    \/ \E b \in DOMAIN procs : FetchBackoff(b)
    \/ \E b \in DOMAIN procs : CreateCheck(b)
    \/ \E b \in DOMAIN procs : CreateInsert(b)
    \/ \E b \in DOMAIN procs : XferSelect(b)
    \/ \E b \in DOMAIN procs : XferUpdate(b)
    \/ \E b \in DOMAIN procs : XferInsert(b)
    \/ \E b \in DOMAIN procs : SyncFixed(b)
    \/ \E b \in DOMAIN procs : SyncBonding(b)
    \/ \E b \in DOMAIN procs : TokExisting(b)
    \/ \E b \in DOMAIN procs : TokInsert(b)
    \/ \E b \in DOMAIN procs : MintToken(b)
    \/ \E b \in DOMAIN procs : MintCount(b)
    \/ \E b \in DOMAIN procs : MintInsert(b)
    \/ \E b \in DOMAIN procs : MintUpdate(b)
    \/ \E b \in DOMAIN procs : BondExisting(b)
    \/ \E b \in DOMAIN procs : BondInsert(b)
    \/ \E b \in DOMAIN procs : BmintToken(b)
    \/ \E b \in DOMAIN procs : BmintCount(b)
    \/ \E b \in DOMAIN procs : BmintInsert(b)
    \/ \E b \in DOMAIN procs : BmintUpdate(b)
    \/ \E b \in DOMAIN procs : GetLogs(b)
    \/ \E b \in DOMAIN procs : E1Select(b)
    \/ \E b \in DOMAIN procs : E2Select(b)
    \/ \E b \in DOMAIN procs : E3Check(b)
    \/ \E b \in DOMAIN procs : E3Insert(b)

(***************************************************************************)
(* The chains the RPC pool serves.  Each family is every sequence of three *)
(* blocks over a small catalogue of blocks.                                *)
(***************************************************************************)
Text(name, params) ==
    [dataPrefix |-> TRUE, mime |-> "text/plain", params |-> params,
     body |-> [NoBody EXCEPT !.name = name]]
Json(body) ==
    [dataPrefix |-> TRUE, mime |-> "application/json", params |-> <<>>, body |-> body]
UriData(u) == [utf8 |-> u, hexlen |-> 22, words |-> <<>>]
HashData(ws) == [utf8 |-> NoText, hexlen |-> 64 * Len(ws), words |-> ws]
CreateTx(a, u) == [from |-> a, to |-> a, data |-> UriData(u)]
XferTx(a, b, ws) == [from |-> a, to |-> b, data |-> HashData(ws)]
NoUri == NoText
NoHash == sha256(NoText)
Esip1Log(k, to, h) ==
    [topic0 |-> ESIP1_TOPIC, address |-> k, a1 |-> to, a2 |-> NoAddr, id |-> h, uri |-> NoUri]
Esip2Log(k, prev, to, h) ==
    [topic0 |-> ESIP2_TOPIC, address |-> k, a1 |-> prev, a2 |-> to, id |-> h, uri |-> NoUri]
Esip3Log(k, owner, u) ==
    [topic0 |-> ESIP3_TOPIC, address |-> k, a1 |-> owner, a2 |-> NoAddr, id |-> NoHash, uri |-> u]
Block(txs, logs) == [txs |-> txs, logs |-> logs]

U1 == Text("hello", <<>>)
U6 == Text("foo", <<"rule=esip6">>)
H1 == sha256(U1)
Tick == [name |-> "bsct", len |-> 4]
Tock == [name |-> "bond", len |-> 4]
Deploy == Json([NoBody EXCEPT !.p = "erc-20-fixed-denomination", !.op = "deploy",
                              !.tick = Tick, !.max = 2, !.lim = 2])
Mint(n) == Json([NoBody EXCEPT !.p = "erc-20-fixed-denomination", !.op = "mint",
                               !.tick = Tick, !.name = n])
BDeploy == Json([NoBody EXCEPT !.p = "erc-20-bonding-curve", !.op = "deploy",
                               !.tick = Tock, !.max = 2, !.lim = 2, !.base = 1])
BMint(n) == Json([NoBody EXCEPT !.p = "erc-20-bonding-curve", !.op = "mint",
                                !.tick = Tock, !.name = n])

\* Creates and the three kinds of transfer of one inscription.
OwnershipBlocks ==
    { Block(<<CreateTx("a", U1)>>, <<>>),
      Block(<<XferTx("a", "b", <<H1>>)>>, <<>>),
      Block(<<XferTx("b", "a", <<H1>>)>>, <<>>),
      Block(<<>>, <<Esip1Log("k", "c", H1)>>),
      Block(<<>>, <<Esip2Log("k", "a", "b", H1)>>),
      Block(<<>>, <<Esip3Log("k", "a", U1)>>) }

\* Token deploys and mints, and transfers of the minted notes.
TokenBlocks ==
    { Block(<<CreateTx("a", Deploy)>>, <<>>),
      Block(<<CreateTx("a", Mint("m1"))>>, <<>>),
      Block(<<CreateTx("b", Mint("m2"))>>, <<>>),
      Block(<<XferTx("a", "b", <<sha256(Mint("m1"))>>)>>, <<>>),
      Block(<<CreateTx("a", BDeploy)>>, <<Esip3Log("k", "a", BMint("m3"))>>),
      Block(<<CreateTx("b", BMint("m4"))>>, <<Esip1Log("k", "c", sha256(BMint("m3")))>>) }

\* ESIP-6 creates of one content, by transaction and by event.
Esip6Blocks ==
    { Block(<<CreateTx("a", U6)>>, <<>>),
      Block(<<CreateTx("b", U6), CreateTx("b", U6)>>, <<>>),
      Block(<<>>, <<Esip3Log("k", "c", U6)>>),
      Block(<<[from |-> "a", to |-> NoAddr, data |-> UriData(U6)],
              CreateTx("a", [U6 EXCEPT !.dataPrefix = FALSE]),
              [from |-> "a", to |-> "b", data |-> [utf8 |-> NoText, hexlen |-> 96, words |-> <<H1>>]]>>,
            <<Esip3Log("k", "c", [U6 EXCEPT !.dataPrefix = FALSE])>>) }

\* The blocks of the runs in which START_BLOCK is set.
SmallBlocks ==
    { Block(<<CreateTx("a", U1)>>, <<>>),
      Block(<<XferTx("a", "b", <<H1>>)>>, <<>>),
      Block(<<>>, <<Esip1Log("k", "c", H1)>>) }

\* A scenario fills the first three blocks of the chain from one catalog; the
\* blocks a longer chain has after them are empty.
\* The blocks of the runs in which no endpoint serves one of the blocks.
OutageBlocks ==
    { Block(<<CreateTx("a", U1)>>, <<>>),
      Block(<<XferTx("a", "b", <<H1>>)>>, <<>>) }

BlockNums == 0 .. MaxHead - 1
ScenarioSlots == {0, 1, 2}
ChainsOver(S) ==
    {c \in [BlockNums -> S \cup {Block(<<>>, <<>>)}] :
        \A n \in BlockNums : (n \in ScenarioSlots) <=> (c[n] \in S)}

\* What the endpoints answer for the blocks they refuse: here no endpoint serves
\* them, the first one failing with a transport error and the others with 429.
Endpoints == 0 .. Len(RPC_URLS) - 1
Refusing == [e \in Endpoints |-> IF e = 0 THEN "err" ELSE "429"]

Scenarios ==
    [chain : ChainsOver(OwnershipBlocks) \cup ChainsOver(TokenBlocks) \cup ChainsOver(Esip6Blocks),
     down : {{}}, rpc : {Refusing}, start : {NoValue}]
    \cup [chain : ChainsOver(OutageBlocks), down : {{n} : n \in BlockNums}, rpc : {Refusing},
           start : {NoValue}]
    \cup [chain : ChainsOver(SmallBlocks), down : {{}}, rpc : {Refusing}, start : {0}]

EmptyStore == <<EmptyFn, <<>>, EmptyFn, EmptyFn, EmptyFn, EmptyFn, <<EmptyFn, <<>>>>>>

InitWith(S) ==
    /\ ethscriptions = EmptyFn /\ transfers = <<>>
    /\ tokens = EmptyFn /\ token_notes = EmptyFn
    /\ bonding_tokens = EmptyFn /\ bonding_notes = EmptyFn
    /\ collections = EmptyFn /\ collection_items = <<>>
    /\ checkpoint = NoValue
    /\ mpc = "head" /\ currentBlock = 0 /\ startBlock = 0 /\ processed = 0
    /\ chunk = 0 /\ passes = 0
    /\ procs = EmptyFn
    /\ \E s \in S : /\ chain = s.chain /\ rpcDown = s.down
                    /\ endpoints = s.rpc /\ START_BLOCK = s.start
                    /\ logsDown = IF "logs" \in DOMAIN s THEN s.logs ELSE {}
    /\ currentRpcIndex = 0
    /\ head \in 1 .. MaxHead
    /\ failedBlocks = {} /\ appliedBlocks = {} /\ failedWrites = {}
    /\ snapshot = [taken |-> FALSE, from |-> 0, upto |-> 0, store |-> EmptyStore]

Init == InitWith(Scenarios)

Spec == Init /\ [][Next]_vars

(***************************************************************************)
(* The RPC pool.  Every block holds one Create; one block is refused by    *)
(* the endpoints in every combination of served / 429 / other error.  Only *)
(* the actions below are ever enabled on these chains.                     *)
(***************************************************************************)
InitRpc ==
    InitWith([chain : ChainsOver({ Block(<<CreateTx("a", U1)>>, <<>>) }),
              down : {{n} : n \in BlockNums},
              rpc : [Endpoints -> {"ok", "429", "err"}], start : {NoValue}])
NextRpc ==
    \/ GetHead \/ GetStartBlock \/ StartChunk \/ JoinChunk \/ SaveCheckpoint \/ NewBlock
    \/ \E b \in DOMAIN procs : FetchBlock(b)
    \/ \E b \in DOMAIN procs : FetchBackoff(b)
    \/ \E b \in DOMAIN procs : CreateCheck(b)
    \/ \E b \in DOMAIN procs : CreateInsert(b)
    \/ \E b \in DOMAIN procs : GetLogs(b)
SpecRpc == InitRpc /\ [][NextRpc]_vars
\* Every pending provider.getBlock is answered and every backoff timer fires;
\* the refused block is the first one and of the endpoints only the last may
\* serve it.
InitFetch ==
    InitWith([chain : ChainsOver({ Block(<<CreateTx("a", U1)>>, <<>>) }),
              down : {{0}},
              rpc : {f \in [Endpoints -> {"ok", "429", "err"}] :
                        \A e \in Endpoints : e < Len(RPC_URLS) - 1 => f[e] # "ok"},
              start : {NoValue}])
SpecRpcFair ==
    /\ InitFetch
    /\ [][NextRpc]_vars
    /\ \A b \in BlockNums : WF_vars(FetchBlock(b) \/ FetchBackoff(b))

(***************************************************************************)
(* ESIP-6 inscriptions and transfers: an ESIP-6 Create by transaction, a   *)
(* plain Create and an ESIP-6 Create by event, all owned by a; a bulk      *)
(* transfer by a naming the plain hash and the hash of the ESIP-6 content; *)
(* and ESIP-1 and ESIP-2 events naming the hashes of the ESIP-6 contents   *)
(* and the plain hash.                                                     *)
(***************************************************************************)
InitEsip6 ==
    LET V6 == Text("bar", <<"rule=esip6">>) IN
    InitWith([chain : ChainsOver(
                 { Block(<<CreateTx("a", U6), CreateTx("a", U1)>>, <<Esip3Log("k", "a", V6)>>),
                   Block(<<XferTx("a", "b", <<H1, sha256(U6)>>)>>, <<>>),
                   Block(<<>>, <<Esip1Log("k", "c", sha256(U6)),
                                 Esip2Log("k", "a", "c", sha256(V6)),
                                 Esip1Log("k", "c", H1)>>) }),
              down : {{}}, rpc : {Refusing}, start : {NoValue}])
NextEsip6 ==
    \/ GetHead \/ GetStartBlock \/ StartChunk \/ JoinChunk \/ SaveCheckpoint \/ NewBlock
    \/ \E b \in DOMAIN procs : FetchBlock(b)
    \/ \E b \in DOMAIN procs : CreateCheck(b)
    \/ \E b \in DOMAIN procs : CreateInsert(b)
    \/ \E b \in DOMAIN procs : XferSelect(b)
    \/ \E b \in DOMAIN procs : XferUpdate(b)
    \/ \E b \in DOMAIN procs : XferInsert(b)
    \/ \E b \in DOMAIN procs : SyncFixed(b)
    \/ \E b \in DOMAIN procs : SyncBonding(b)
    \/ \E b \in DOMAIN procs : GetLogs(b)
    \/ \E b \in DOMAIN procs : E1Select(b)
    \/ \E b \in DOMAIN procs : E2Select(b)
    \/ \E b \in DOMAIN procs : E3Check(b)
    \/ \E b \in DOMAIN procs : E3Insert(b)
SpecEsip6 == InitEsip6 /\ [][NextEsip6]_vars

(***************************************************************************)
(* ESIP-7.  Creates of gzip data URIs: the gzip parameter before and after *)
(* base64, without base64, on a payload that does not inflate, a           *)
(* compressed payload without the parameter, and the parameter written     *)
(* twice on a payload compressed twice.  One block is refused by every     *)
(* endpoint on the first pass, so the actions of NextRpc are the ones      *)
(* enabled on these chains.                                                *)
(***************************************************************************)
InitGzip ==
    LET G(name, ps, gz) == CreateTx("a", [Text(name, ps) EXCEPT !.body.gz = gz]) IN
    InitWith([chain : ChainsOver(
                 { Block(<<G("z1", <<"gzip", "base64">>, 1),
                           G("z2", <<"base64", "gzip">>, 1)>>, <<>>),
                   Block(<<G("z3", <<"gzip">>, 1), G("z4", <<"gzip", "base64">>, 0),
                           G("z5", <<"base64">>, 1)>>, <<>>),
                   Block(<<G("z6", <<"gzip", "gzip", "base64">>, 2),
                           G("z7", <<"base64", "gzip", "gzip">>, 2)>>, <<>>) }),
              down : {{n} : n \in BlockNums}, rpc : {Refusing}, start : {NoValue}])
SpecGzip == InitGzip /\ [][NextRpc]_vars

(***************************************************************************)
(* The event logs.  Every block holds one Create and one ESIP-3 event; the *)
(* provider.getLogs of one block throws on every attempt, with a rate      *)
(* limit or with another error.                                            *)
(***************************************************************************)
InitLogs ==
    InitWith([chain : ChainsOver({ Block(<<CreateTx("a", U1)>>,
                                         <<Esip3Log("k", "c", Text("logged", <<>>))>>) }),
              down : {{}}, rpc : {Refusing}, start : {NoValue},
              logs : {{n} : n \in BlockNums}])
NextLogs ==
    \/ GetHead \/ GetStartBlock \/ StartChunk \/ JoinChunk \/ SaveCheckpoint \/ NewBlock
    \/ \E b \in DOMAIN procs : FetchBlock(b)
    \/ \E b \in DOMAIN procs : CreateCheck(b)
    \/ \E b \in DOMAIN procs : CreateInsert(b)
    \/ \E b \in DOMAIN procs : GetLogs(b)
    \/ \E b \in DOMAIN procs : LogsBackoff(b)
    \/ \E b \in DOMAIN procs : E3Check(b)
    \/ \E b \in DOMAIN procs : E3Insert(b)
SpecLogs == InitLogs /\ [][NextLogs]_vars

(***************************************************************************)
(* Bulk transfers: two inscriptions of one owner and, in the same block, a *)
(* bulk transfer of an unknown hash and of both; calldata of 96 hex digits *)
(* sent by their new owner, next to an ESIP-3 Create.  Only the actions    *)
(* of NextIntents are ever enabled on these chains and on those of         *)
(* OrderBlocks.                                                            *)
(***************************************************************************)
IntentBlocks ==
    LET U2 == Text("world", <<>>)
        U3 == Text("never", <<>>)
        U4 == Text("late", <<>>)
    IN
    { Block(<<CreateTx("a", U1), CreateTx("a", U2),
              XferTx("a", "e", <<sha256(U3), H1, sha256(U2)>>)>>, <<>>),
      Block(<<[from |-> "e", to |-> "a",
               data |-> [utf8 |-> NoText, hexlen |-> 96, words |-> <<H1>>]]>>,
            <<Esip3Log("k", "c", U4)>>) }
\* Order within a block: a transfer ahead of the Create it names, a transfer by
\* a stranger that also names an unknown hash, and ESIP-3 Creates of the same
\* content and of a content nothing else names.
OrderBlocks ==
    LET U3 == Text("never", <<>>)
        U4 == Text("late", <<>>)
        U5 == Text("event", <<>>)
    IN
    { Block(<<XferTx("a", "b", <<sha256(U4)>>), CreateTx("a", U4)>>, <<>>),
      Block(<<XferTx("b", "c", <<sha256(U3), sha256(U4)>>)>>, <<>>),
      Block(<<>>, <<Esip3Log("k", "c", U4)>>),
      Block(<<>>, <<Esip3Log("k", "c", U5)>>) }
\* The block of the bulk transfer stands at most twice on a chain (a copy
\* names the same inscriptions again).
InitIntents ==
    InitWith([chain : {c \in ChainsOver(IntentBlocks) :
                         Cardinality({n \in BlockNums : Len(c[n].txs) > 1}) <= 2},
              down : {{}}, rpc : {Refusing}, start : {NoValue}])
NextIntents ==
    \/ GetHead \/ GetStartBlock \/ StartChunk \/ JoinChunk \/ SaveCheckpoint \/ NewBlock
    \/ \E b \in DOMAIN procs : FetchBlock(b)
    \/ \E b \in DOMAIN procs : CreateCheck(b)
    \/ \E b \in DOMAIN procs : CreateInsert(b)
    \/ \E b \in DOMAIN procs : XferSelect(b)
    \/ \E b \in DOMAIN procs : XferUpdate(b)
    \/ \E b \in DOMAIN procs : XferInsert(b)
    \/ \E b \in DOMAIN procs : SyncFixed(b)
    \/ \E b \in DOMAIN procs : SyncBonding(b)
    \/ \E b \in DOMAIN procs : GetLogs(b)
    \/ \E b \in DOMAIN procs : E3Check(b)
    \/ \E b \in DOMAIN procs : E3Insert(b)
SpecIntents == InitIntents /\ [][NextIntents]_vars
InitOrder ==
    InitWith([chain : ChainsOver(OrderBlocks), down : {{}}, rpc : {Refusing},
              start : {NoValue}])
SpecOrder == InitOrder /\ [][NextIntents]_vars
\* The same chains with the cron indexer running next to main().
NextCron == NextIntents \/ indexBlocks
SpecCron == InitOrder /\ [][NextCron]_vars
\* The same chains with every RPC and store call returning and every timer of
\* main() firing: a step other than the growth of the chain is taken whenever
\* one stays possible.  The chain itself need not grow.
SpecOrderFair ==
    /\ InitOrder
    /\ [][NextIntents]_vars
    /\ WF_vars(NextIntents /\ head' = head)

(***************************************************************************)
(* Supply bookkeeping of one fixed-denomination token: a deploy with room  *)
(* for two notes, the same mint payload inscribed by block after block,    *)
(* two further mints with payloads of their own, a deploy whose max is no  *)
(* multiple of its lim, and a mint asking for twice the denomination.      *)
(***************************************************************************)
Odd == [name |-> "odd", len |-> 3]
DeployTwo == Json([NoBody EXCEPT !.p = "erc-20-fixed-denomination", !.op = "deploy",
                                 !.tick = Tick, !.max = 2, !.lim = 1])
DeployOdd == Json([NoBody EXCEPT !.p = "erc-20-fixed-denomination", !.op = "deploy",
                                 !.tick = Odd, !.max = 3, !.lim = 2])
SameMint == Block(<<CreateTx("a", Mint(""))>>, <<>>)
SupplyBlocks ==
    { Block(<<CreateTx("a", DeployTwo)>>, <<>>),
      SameMint,
      Block(<<CreateTx("b", Mint("m2")), CreateTx("b", Mint("m3"))>>, <<>>),
      Block(<<CreateTx("c", DeployOdd)>>, <<>>),
      Block(<<CreateTx("c", Json([NoBody EXCEPT !.p = "erc-20-fixed-denomination",
                                                !.op = "mint", !.tick = Tick, !.amt = 2]))>>,
            <<>>) }
InitSupply ==
    InitWith([chain : ChainsOver(SupplyBlocks), down : {{}}, rpc : {Refusing},
              start : {NoValue}])
NextSupply ==
    \/ GetHead \/ GetStartBlock \/ StartChunk \/ JoinChunk \/ SaveCheckpoint \/ NewBlock
    \/ \E b \in DOMAIN procs : FetchBlock(b)
    \/ \E b \in DOMAIN procs : CreateCheck(b)
    \/ \E b \in DOMAIN procs : CreateInsert(b)
    \/ \E b \in DOMAIN procs : TokExisting(b)
    \/ \E b \in DOMAIN procs : TokInsert(b)
    \/ \E b \in DOMAIN procs : MintToken(b)
    \/ \E b \in DOMAIN procs : MintCount(b)
    \/ \E b \in DOMAIN procs : MintInsert(b)
    \/ \E b \in DOMAIN procs : MintUpdate(b)
    \/ \E b \in DOMAIN procs : GetLogs(b)
SpecSupply == InitSupply /\ [][NextSupply]_vars

(***************************************************************************)
(* Deploys and mints of one tick: a deploy spelling it in upper case, a    *)
(* deploy of the same tick with other numbers, deploys with a tick of 28   *)
(* and of 29 characters, with max 0 and with lim 0, a mint without amt,    *)
(* and mints with amt 0 and amt 3, and a block whose first transaction     *)
(* mints with an amt that is no integer.  The actions of NextSupply are    *)
(* the ones enabled on these chains.                                       *)
(***************************************************************************)
InitDeploys ==
    LET Dep(t, max, lim) ==
            Json([NoBody EXCEPT !.p = "erc-20-fixed-denomination", !.op = "deploy",
                                !.tick = t, !.max = max, !.lim = lim])
        MintAmt(amt) ==
            Json([NoBody EXCEPT !.p = "erc-20-fixed-denomination", !.op = "mint",
                                !.tick = Tick, !.amt = amt])
    IN InitWith([chain : ChainsOver(
                    { Block(<<CreateTx("a", Dep([name |-> "BSCT", len |-> 4], 2, 1))>>, <<>>),
                      Block(<<CreateTx("b", Dep(Tick, 4, 2))>>, <<>>),
                      Block(<<CreateTx("a", Dep([name |-> "t28", len |-> 28], 1, 1)),
                              CreateTx("a", Dep([name |-> "t29", len |-> 29], 1, 1)),
                              CreateTx("a", Dep([name |-> "zmax", len |-> 4], 0, 1)),
                              CreateTx("a", Dep([name |-> "zlim", len |-> 4], 1, 0))>>, <<>>),
                      Block(<<CreateTx("a", Mint("m1"))>>, <<>>),
                      Block(<<CreateTx("c", MintAmt(0)), CreateTx("c", MintAmt(3))>>, <<>>),
                      Block(<<CreateTx("c", MintAmt(NotInteger)), CreateTx("c", U1)>>, <<>>) }),
                 down : {{}}, rpc : {Refusing}, start : {NoValue}])
SpecDeploys == InitDeploys /\ [][NextSupply]_vars

(***************************************************************************)
(* Bonding-curve tokens: a deploy whose max is a multiple of its lim, a    *)
(* deploy of another tick whose max is not, mints of both and a mint of a  *)
(* tick nobody deployed.                                                   *)
(***************************************************************************)
InitBonding ==
    LET Bond(op, t, max, lim, n) ==
            Json([NoBody EXCEPT !.p = "erc-20-bonding-curve", !.op = op, !.tick = t,
                                !.max = max, !.lim = lim, !.base = 1, !.name = n])
    IN InitWith([chain : ChainsOver(
                    { Block(<<CreateTx("a", BDeploy)>>, <<>>),
                      Block(<<CreateTx("a", Bond("deploy", Odd, 3, 2, ""))>>, <<>>),
                      Block(<<CreateTx("b", BMint("m1"))>>, <<>>),
                      Block(<<CreateTx("b", Bond("mint", Odd, 0, 0, "m2")),
                              CreateTx("b", Bond("mint", Tick, 0, 0, "m3"))>>, <<>>) }),
                 down : {{}}, rpc : {Refusing}, start : {NoValue}])
NextBonding ==
    \/ GetHead \/ GetStartBlock \/ StartChunk \/ JoinChunk \/ SaveCheckpoint \/ NewBlock
    \/ \E b \in DOMAIN procs : FetchBlock(b)
    \/ \E b \in DOMAIN procs : CreateCheck(b)
    \/ \E b \in DOMAIN procs : CreateInsert(b)
    \/ \E b \in DOMAIN procs : BondExisting(b)
    \/ \E b \in DOMAIN procs : BondInsert(b)
    \/ \E b \in DOMAIN procs : BmintToken(b)
    \/ \E b \in DOMAIN procs : BmintCount(b)
    \/ \E b \in DOMAIN procs : BmintInsert(b)
    \/ \E b \in DOMAIN procs : BmintUpdate(b)
    \/ \E b \in DOMAIN procs : GetLogs(b)
SpecBonding == InitBonding /\ [][NextBonding]_vars

(***************************************************************************)
(* One collection: its create (adding itself as the first item), and the   *)
(* owner's lock, edit and transfer of ownership (to an address spelled in  *)
(* upper case) and a stranger's add, each inscribed in a block of its own, *)
(* and an edit inscribed by a contract through an ESIP-3 event that names  *)
(* the owner of the collection as initial owner.                           *)
(***************************************************************************)
CollectionBlocks ==
    LET Coll(op, body) ==
            Json([body EXCEPT !.p = "erc-721-ethscriptions-collection", !.op = op])
        CreateColl ==
            Coll("create_collection_and_add_self",
                 [NoBody EXCEPT !.name = "n1", !.symbol = "s1", !.description = "d1",
                                !.max_supply = 2, !.item = TRUE])
        CollId == EthId(sha256(CreateColl), 0)
    IN
    { Block(<<CreateTx("a", CreateColl)>>, <<>>),
      Block(<<CreateTx("a", Coll("lock_collection", [NoBody EXCEPT !.collection_id = CollId]))>>,
            <<>>),
      Block(<<CreateTx("a", Coll("edit_collection",
                                 [NoBody EXCEPT !.collection_id = CollId, !.name = "n2"]))>>,
            <<>>),
      Block(<<CreateTx("b", Coll("add", [NoBody EXCEPT !.collection_id = CollId]))>>, <<>>),
      Block(<<CreateTx("a", Coll("transfer_ownership",
                                 [NoBody EXCEPT !.collection_id = CollId,
                                                !.new_owner = "B"]))>>, <<>>),
      Block(<<>>, <<Esip3Log("k", "a", Coll("edit_collection",
                                            [NoBody EXCEPT !.collection_id = CollId,
                                                           !.symbol = "s2"]))>>) }
InitCollections ==
    InitWith([chain : ChainsOver(CollectionBlocks), down : {{}}, rpc : {Refusing},
              start : {NoValue}])
NextCollections ==
    \/ GetHead \/ GetStartBlock \/ StartChunk \/ JoinChunk \/ SaveCheckpoint \/ NewBlock
    \/ \E b \in DOMAIN procs : FetchBlock(b)
    \/ \E b \in DOMAIN procs : CreateCheck(b)
    \/ \E b \in DOMAIN procs : CreateInsert(b)
    \/ \E b \in DOMAIN procs : ColCreate(b)
    \/ \E b \in DOMAIN procs : ColEdit(b)
    \/ \E b \in DOMAIN procs : ColLock(b)
    \/ \E b \in DOMAIN procs : ColTransfer(b)
    \/ \E b \in DOMAIN procs : AddSelect(b)
    \/ \E b \in DOMAIN procs : AddCount(b)
    \/ \E b \in DOMAIN procs : AddInsert(b)
    \/ \E b \in DOMAIN procs : GetLogs(b)
    \/ \E b \in DOMAIN procs : E3Check(b)
    \/ \E b \in DOMAIN procs : E3Insert(b)
SpecCollections == InitCollections /\ [][NextCollections]_vars

(***************************************************************************)
(* A store that may refuse any write: a Create, a token deploy, a mint,    *)
(* and a bulk transfer of the two inscriptions.                            *)
(***************************************************************************)
InitStoreErrors ==
    InitWith([chain : ChainsOver({ Block(<<CreateTx("a", U1)>>, <<>>),
                                   Block(<<XferTx("a", "b", <<H1, sha256(Mint(""))>>)>>, <<>>),
                                   Block(<<CreateTx("a", DeployTwo)>>, <<>>),
                                   SameMint }),
              down : {{}}, rpc : {Refusing}, start : {NoValue}])
NextStoreErrors ==
    \/ GetHead \/ GetStartBlock \/ StartChunk \/ JoinChunk \/ SaveCheckpoint \/ NewBlock
    \/ \E b \in DOMAIN procs : FetchBlock(b)
    \/ \E b \in DOMAIN procs : CreateCheck(b)
    \/ \E b \in DOMAIN procs : CreateInsert(b)
    \/ \E b \in DOMAIN procs : XferSelect(b)
    \/ \E b \in DOMAIN procs : XferUpdate(b)
    \/ \E b \in DOMAIN procs : XferInsert(b)
    \/ \E b \in DOMAIN procs : SyncFixed(b)
    \/ \E b \in DOMAIN procs : SyncBonding(b)
    \/ \E b \in DOMAIN procs : TokExisting(b)
    \/ \E b \in DOMAIN procs : TokInsert(b)
    \/ \E b \in DOMAIN procs : MintToken(b)
    \/ \E b \in DOMAIN procs : MintCount(b)
    \/ \E b \in DOMAIN procs : MintInsert(b)
    \/ \E b \in DOMAIN procs : MintUpdate(b)
    \/ \E b \in DOMAIN procs : GetLogs(b)
    \/ \E b \in DOMAIN procs : WriteFails(b)
SpecStoreErrors == InitStoreErrors /\ [][NextStoreErrors]_vars

(***************************************************************************)
(* Properties.  The store invariants are stated of the states in which no  *)
(* processBlock call is in flight (Quiet): between two store calls of one  *)
(* intent the tables are not yet meant to agree.                           *)
(***************************************************************************)
RowsOf(id) == SelectSeq(transfers, LAMBDA t : t.ethscription_id = id)

\* The owner an inscription was created with: the sender of the creating
\* transaction, or the initialOwner topic of the creating event.
InitialOwner(id) ==
    LET row == ethscriptions[id] IN
    IF row.created_by_contract
    THEN chain[row.creation_block].logs[row.creation_tx[3]].a1
    ELSE row.creator

(* C1: whenever a transfer (EOA/bulk, ESIP-1 or ESIP-2) overwrites
   current_owner, the owner it overwrites is the from address of the Transfer
   row it then writes. *)
C1_TransferFromIsOwner ==
    [][\A b \in DOMAIN procs :
          (procs[b].pc = "xferUpdate" /\ b \in DOMAIN procs' /\ procs'[b].pc = "xferInsert")
          => ethscriptions[XferId(b)].current_owner = XferFrom(b)]_vars

(* C2 as stated: with no processBlock in flight, every inscription's
   current_owner is the `to` of its latest Transfer row, or its creator when it
   has no Transfer row. *)
C2_OwnerIsLatestToOrCreator ==
    Quiet => \A id \in DOMAIN ethscriptions :
               LET rows == RowsOf(id) IN
               ethscriptions[id].current_owner =
                 IF rows = <<>> THEN ethscriptions[id].creator ELSE rows[Len(rows)].to_address

(* C2 amended: with no processBlock in flight, every inscription's
   current_owner is the `to` of one of its Transfer rows, or, when it has no
   Transfer row, the owner it was created with (the creator of a calldata
   Create, the initialOwner of an ESIP-3 event). *)
C2_OwnerIsSomeToOrInitialOwner ==
    Quiet => \A id \in DOMAIN ethscriptions :
               LET rows == RowsOf(id) IN
               IF rows = <<>>
               THEN ethscriptions[id].current_owner = InitialOwner(id)
               ELSE \E i \in 1 .. Len(rows) : ethscriptions[id].current_owner = rows[i].to_address

\* C2 witness: an ESIP-3 inscription at rest, never transferred, owned by the
\* initialOwner of its event and not by its creator.
C2_Witness ==
    /\ Quiet
    /\ \E id \in DOMAIN ethscriptions :
          /\ ethscriptions[id].created_by_contract
          /\ RowsOf(id) = <<>>
          /\ ethscriptions[id].current_owner # ethscriptions[id].creator

(* C3: a processBlock call touches the store only when every call for a lower
   block number of the same batch has returned; only fetches overlap. *)
C3_BlocksAppliedInOrder ==
    [][\A q \in DOMAIN procs :
          (q \in DOMAIN procs' /\ procs'[q] # procs[q] /\ procs[q].pc \notin {"fetch", "getLogs"})
          => \A n \in DOMAIN procs : n < q => procs[n].pc = "done"]_vars

(* C4: a checkpoint write never moves the checkpoint to or past a block whose
   fetch failed on every endpoint and that has not been fetched since. *)
C4_CheckpointStaysBelowFailedBlock ==
    [][checkpoint' # checkpoint => \A n \in failedBlocks : checkpoint' < n]_vars

(* C5: when the checkpoint holds N, every block with number <= N, N included,
   has been applied. *)
C5_CheckpointCoversApplied ==
    checkpoint # NoValue => \A n \in 0 .. checkpoint : n \in appliedBlocks

(* C6: a pass of main() over the block range of an earlier pass leaves every
   table of the store as that pass left it. *)
C6_ReprocessingChangesNothing ==
    (/\ snapshot.taken /\ passes = 2 /\ mpc = "head"
     /\ startBlock = snapshot.from /\ currentBlock = snapshot.upto)
    => store = snapshot.store

(* C7: with no processBlock in flight, every token note (fixed and bonding) is
   owned by the current_owner of its backing inscription. *)
C7_NoteOwnerIsInscriptionOwner ==
    Quiet =>
      /\ \A k \in DOMAIN token_notes :
            token_notes[k].owner = ethscriptions[token_notes[k].ethscription_id].current_owner
      /\ \A k \in DOMAIN bonding_notes :
            bonding_notes[k].owner = ethscriptions[bonding_notes[k].ethscription_id].current_owner

RECURSIVE SumAmounts(_, _)
SumAmounts(notes, keys) ==
    IF keys = {} THEN 0
    ELSE LET k == CHOOSE x \in keys : TRUE IN notes[k].amount + SumAmounts(notes, keys \ {k})

(* C8: with no processBlock in flight, the amounts of the notes of every
   deployed token (fixed and bonding) add up to its minted. *)
C8_NotesSumToMinted ==
    Quiet =>
      /\ \A t \in DOMAIN tokens :
            SumAmounts(token_notes, {k \in DOMAIN token_notes : k[1] = t}) = tokens[t].minted
      /\ \A t \in DOMAIN bonding_tokens :
            SumAmounts(bonding_notes, {k \in DOMAIN bonding_notes : k[1] = t})
              = bonding_tokens[t].minted

\* The applied blocks that hold a valid non-ESIP-6 Create of the content hash.
CreatesHash(n, hash) ==
    \/ \E i \in 1 .. Len(chain[n].txs) :
          /\ Classify(chain[n].txs[i]) = "create"
          /\ ~TxIsEsip6(chain[n].txs[i])
          /\ TxHashOf(chain[n].txs[i]) = hash
    \/ \E i \in 1 .. Len(chain[n].logs) :
          /\ chain[n].logs[i].topic0 = ESIP3_TOPIC
          /\ ~LogIgnored(chain[n].logs[i])
          /\ ~LogIsEsip6(chain[n].logs[i])
          /\ LogHashOf(chain[n].logs[i]) = hash

(* C9: with no processBlock in flight, a non-ESIP-6 inscription carries the
   creation_block of the lowest applied block that holds a Create of its
   content hash. *)
C9_FirstCreateWins ==
    Quiet => \A id \in DOMAIN ethscriptions :
               id[2] = 0 =>
                 \A n \in appliedBlocks :
                    CreatesHash(n, id[1]) => ethscriptions[id].creation_block <= n

\* The number of ESIP-6 Creates of the content hash in block n.
Esip6CreatesIn(n, hash) ==
    Cardinality({i \in 1 .. Len(chain[n].txs) :
                    /\ Classify(chain[n].txs[i]) = "create"
                    /\ TxIsEsip6(chain[n].txs[i])
                    /\ TxHashOf(chain[n].txs[i]) = hash})
    + Cardinality({i \in 1 .. Len(chain[n].logs) :
                      /\ chain[n].logs[i].topic0 = ESIP3_TOPIC
                      /\ ~LogIgnored(chain[n].logs[i])
                      /\ LogIsEsip6(chain[n].logs[i])
                      /\ LogHashOf(chain[n].logs[i]) = hash})

(* C10: with no processBlock in flight, a block that was applied with k ESIP-6
   Creates of one content leaves at least the inscriptions hash-1 .. hash-k in
   the store: none of the sibling Creates is dropped. *)
C10_Esip6SiblingsAllStored ==
    Quiet => \A n \in appliedBlocks :
               \A k \in 1 .. Esip6CreatesIn(n, sha256(U6)) :
                  EthId(sha256(U6), k) \in DOMAIN ethscriptions

(* C11: getBlockWithRetry gives up on a block only if no endpoint of the pool
   would serve it: a block whose fetch returned null is refused by every
   endpoint. *)
C11_FetchFailsOnlyIfNoEndpointServes ==
    \A b \in failedBlocks : \A e \in Endpoints : endpoints[e] # "ok"

(* C12: an EOA transfer, single or one hash of a bulk transfer, whose select
   finds no inscription with that id owned by the sender changes nothing: the
   step leaves every table as it was and the call moves on to the next hash or
   transaction without any of the writes of a transfer. *)
C12_RejectedTransferChangesNothing ==
    [][\A b \in DOMAIN procs :
          (/\ procs[b].pc = "xferSelect" /\ ~InLogs(b)
           /\ ~(/\ XferId(b) \in DOMAIN ethscriptions
                /\ ethscriptions[XferId(b)].current_owner = CurTx(b).from)
           /\ procs'[b] # procs[b])
          => /\ store' = store
             /\ procs'[b].pc \notin {"xferUpdate", "xferInsert", "syncFixed", "syncBonding"}
             /\ <<procs'[b].ti, procs'[b].hi>> # <<procs[b].ti, procs[b].hi>>]_vars

\* C12 witness: a processBlock call has finished a block holding a transfer by
\* someone who does not own the inscription named, and a hash nobody
\* inscribed; neither left a Transfer row.
C12_Witness ==
    \E b \in DOMAIN procs :
       /\ procs[b].pc = "done"
       /\ \E i \in 1 .. Len(Txs(b)) :
             /\ Classify(Txs(b)[i]) = "bulk"
             /\ \E h \in 1 .. numHashes(Txs(b)[i]) :
                   /\ EthId(Txs(b)[i].data.words[h], 0) \in DOMAIN ethscriptions
                   /\ ethscriptions[EthId(Txs(b)[i].data.words[h], 0)].current_owner
                        \notin {Txs(b)[i].from, Txs(b)[i].to}
             /\ \E h \in 1 .. numHashes(Txs(b)[i]) :
                   EthId(Txs(b)[i].data.words[h], 0) \notin DOMAIN ethscriptions
             /\ \A r \in 1 .. Len(transfers) : transfers[r].tx_hash # TxHash(b, i)

\* The ids a transaction or a log names: the content hash of a Create, the
\* hashes of a transfer.
TxNames(tx) ==
    CASE Classify(tx) = "create" -> {EthId(TxHashOf(tx), 0)}
      [] Classify(tx) = "bulk" -> {EthId(tx.data.words[h], 0) : h \in 1 .. numHashes(tx)}
      [] OTHER -> {}
LogNames(log) ==
    IF log.topic0 = ESIP3_TOPIC
    THEN (IF LogIgnored(log) THEN {} ELSE {EthId(LogHashOf(log), 0)})
    ELSE {EthId(log.id, 0)}
\* Transactions i < j of block n are a transfer of id and the Create of id, and
\* nothing else on the chain names id.
TransferAheadOfCreate(n, i, j, id) ==
    /\ i < j
    /\ Classify(Txs(n)[i]) = "bulk" /\ id \in TxNames(Txs(n)[i])
    /\ Classify(Txs(n)[j]) = "create" /\ id \in TxNames(Txs(n)[j])
    /\ \A k \in 1 .. Len(Txs(n)) : k \notin {i, j} => id \notin TxNames(Txs(n)[k])
    /\ \A k \in 1 .. Len(Logs(n)) : id \notin LogNames(Logs(n)[k])
    /\ \A m \in DOMAIN chain \ {n} :
          /\ \A k \in 1 .. Len(Txs(m)) : id \notin TxNames(Txs(m)[k])
          /\ \A k \in 1 .. Len(Logs(m)) : id \notin LogNames(Logs(m)[k])

(* C13: within one block the transactions are applied in the order they
   appear and the logs, in log order, only after all of them: the position of
   a processBlock call never moves backwards and never returns from the logs
   to the transactions.  So a transfer that stands before the Create of the
   inscription it names, in the same block, is dropped: once the block is
   applied the inscription exists, is owned by its creator and has no Transfer
   row. *)
C13_TxOrderThenLogOrder ==
    /\ [][\A b \in DOMAIN procs \cap DOMAIN procs' :
            /\ procs[b].li > 0 => procs'[b].li >= procs[b].li /\ procs'[b].ti = procs[b].ti
            /\ procs'[b].ti >= procs[b].ti
            /\ procs'[b].ti = procs[b].ti => procs'[b].hi >= procs[b].hi
            /\ procs'[b].li > 0 => procs'[b].ti > Len(Txs(b))]_vars
    /\ [](\A n \in appliedBlocks : \A i, j \in 1 .. Len(Txs(n)) :
            \A id \in TxNames(Txs(n)[j]) :
               TransferAheadOfCreate(n, i, j, id)
               => /\ id \in DOMAIN ethscriptions
                  /\ ethscriptions[id].current_owner = Txs(n)[j].from
                  /\ ethscriptions[id].creator = Txs(n)[j].from
                  /\ RowsOf(id) = <<>>)

\* C13 witness: a block whose first transaction transfers the inscription its
\* second transaction creates has been applied.
C13_Witness ==
    \E n \in appliedBlocks : \E i, j \in 1 .. Len(Txs(n)) :
       \E id \in DOMAIN ethscriptions :
          /\ TransferAheadOfCreate(n, i, j, id)
          /\ ethscriptions[id].current_owner = Txs(n)[j].from
          /\ ethscriptions[id].current_owner # Txs(n)[i].to

\* The notes of a tick.
NotesOf(tick) == {k \in DOMAIN token_notes : k[1] = tick}

(* C14: after the deploy of a token with room for a number of notes, that many
   mint inscriptions carrying the same mint payload (op mint, the tick, no
   amt) fill the supply: minted equals max_supply and there is one note of the
   denomination per mint.  Here the deploy has max 2 and lim 1 and the chain
   is the deploy followed by the same mint in the next two blocks. *)
C14_SameMintPayloadFillsSupply ==
    (/\ Quiet /\ appliedBlocks = BlockNums
     /\ chain[0] = Block(<<CreateTx("a", DeployTwo)>>, <<>>)
     /\ \A n \in BlockNums \ {0} : chain[n] = SameMint)
    => /\ Tick \in DOMAIN tokens
       /\ tokens[Tick].minted = tokens[Tick].max_supply
       /\ Cardinality(NotesOf(Tick)) = Cardinality(BlockNums \ {0})
       /\ \A k \in NotesOf(Tick) : token_notes[k].amount = tokens[Tick].denomination

(* C17: in every reachable state every fixed-denomination token has a
   max_supply divisible by its denomination, minted at most max_supply, and
   minted a multiple of the denomination. *)
C17_SupplyInvariant ==
    \A t \in DOMAIN tokens :
       /\ tokens[t].denomination > 0
       /\ tokens[t].max_supply % tokens[t].denomination = 0
       /\ tokens[t].minted <= tokens[t].max_supply
       /\ tokens[t].minted % tokens[t].denomination = 0

\* C17 witness: the supply of a token of two notes is used up, and a deploy
\* whose max is no multiple of its lim has been applied and left no token.
C17_Witness ==
    /\ Quiet
    /\ Tick \in DOMAIN tokens
    /\ tokens[Tick].minted = tokens[Tick].max_supply
    /\ tokens[Tick].denomination < tokens[Tick].max_supply
    /\ \E n \in appliedBlocks : chain[n] = Block(<<CreateTx("c", DeployOdd)>>, <<>>)
    /\ Odd \notin DOMAIN tokens

(* C15: once a collection is locked, no later step changes its name, symbol
   or description, whoever inscribes the edit_collection. *)
C15_LockedCollectionKeepsMetadata ==
    [][\A id \in DOMAIN collections :
          collections[id].locked
          => /\ id \in DOMAIN collections'
             /\ collections'[id].name = collections[id].name
             /\ collections'[id].symbol = collections[id].symbol
             /\ collections'[id].description = collections[id].description]_vars

\* The rows of base_transfers one transaction left, in insertion order.
RowsOfTx(n, i) == SelectSeq(transfers, LAMBDA r : r.tx_hash = TxHash(n, i))
\* Hash h of the bulk transfer i of block n names an inscription that the
\* sender created earlier in the same block and that nothing else names.
SendersOwn(n, i, h) ==
    LET id == EthId(Txs(n)[i].data.words[h], 0) IN
    /\ \E j \in 1 .. i - 1 : /\ Classify(Txs(n)[j]) = "create"
                             /\ id \in TxNames(Txs(n)[j])
                             /\ Txs(n)[j].from = Txs(n)[i].from
                             /\ \A k \in 1 .. Len(Txs(n)) :
                                   k \notin {i, j} => id \notin TxNames(Txs(n)[k])
    /\ \A g \in 1 .. numHashes(Txs(n)[i]) : g # h => Txs(n)[i].data.words[g] # Txs(n)[i].data.words[h]
    /\ \A k \in 1 .. Len(Logs(n)) : id \notin LogNames(Logs(n)[k])
    /\ \A m \in DOMAIN chain \ {n} :
          /\ \A k \in 1 .. Len(Txs(m)) : id \notin TxNames(Txs(m)[k])
          /\ \A k \in 1 .. Len(Logs(m)) : id \notin LogNames(Logs(m)[k])

(* C18: once a block is applied, a non-self transaction of k >= 1 hashes has
   left Transfer rows only for hashes it names, each from its sender to its
   recipient and each for a stored inscription; every hash naming an
   inscription the sender owns (created by the sender earlier in the block and
   named by nothing else) has exactly one row and the inscription is owned by
   the recipient, whatever the other hashes of the calldata name; the rows
   stand in calldata order.  A non-self transaction whose calldata has a hex
   length that is no multiple of 64 has left no row. *)
C18_BulkTransfersEachOwnedHash ==
    \A n \in appliedBlocks : \A i \in 1 .. Len(Txs(n)) :
       LET tx == Txs(n)[i]
           R == RowsOfTx(n, i)
           Row(h) == CHOOSE r \in 1 .. Len(R) :
                       R[r].ethscription_id = EthId(tx.data.words[h], 0)
       IN tx.to # NoAddr /\ tx.from # tx.to =>
          IF tx.data.hexlen = 0 \/ tx.data.hexlen % 64 # 0
          THEN R = <<>>
          ELSE /\ \A r \in 1 .. Len(R) :
                    /\ \E h \in 1 .. numHashes(tx) :
                          R[r].ethscription_id = EthId(tx.data.words[h], 0)
                    /\ R[r].ethscription_id \in DOMAIN ethscriptions
                    /\ R[r].from_address = tx.from /\ R[r].to_address = tx.to
               /\ \A h \in 1 .. numHashes(tx) :
                    SendersOwn(n, i, h)
                    => /\ ethscriptions[EthId(tx.data.words[h], 0)].current_owner = tx.to
                       /\ Cardinality({r \in 1 .. Len(R) :
                             R[r].ethscription_id = EthId(tx.data.words[h], 0)}) = 1
               /\ \A g, h \in 1 .. numHashes(tx) :
                    SendersOwn(n, i, g) /\ SendersOwn(n, i, h) /\ g < h => Row(g) < Row(h)

\* C18 witness: an applied block holds a bulk transfer whose first hash names
\* nothing and whose next two name inscriptions of the sender: it left two
\* rows and both inscriptions with the recipient; and an applied block holds
\* calldata of 96 hex digits sent by the owner of the inscription that its
\* first 64 digits name.
C18_Witness ==
    /\ \E n \in appliedBlocks : \E i \in 1 .. Len(Txs(n)) :
          /\ numHashes(Txs(n)[i]) = 3 /\ Classify(Txs(n)[i]) = "bulk"
          /\ ~SendersOwn(n, i, 1) /\ SendersOwn(n, i, 2) /\ SendersOwn(n, i, 3)
          /\ Len(RowsOfTx(n, i)) = 2
          /\ \A h \in {2, 3} :
                ethscriptions[EthId(Txs(n)[i].data.words[h], 0)].current_owner = Txs(n)[i].to
    /\ \E n \in appliedBlocks : \E i \in 1 .. Len(Txs(n)) :
          /\ Txs(n)[i].data.hexlen = 96 /\ Txs(n)[i].from # Txs(n)[i].to
          /\ EthId(Txs(n)[i].data.words[1], 0) \in DOMAIN ethscriptions
          /\ ethscriptions[EthId(Txs(n)[i].data.words[1], 0)].current_owner = Txs(n)[i].from

\* Log k of block n is a CreateEthscription event of a data URI without the
\* ESIP-6 rule, and whatever else on the chain names its content hash is the
\* same event again.
Esip3Only(n, k) ==
    LET log == Logs(n)[k]
        id == EthId(LogHashOf(log), 0)
    IN /\ log.topic0 = ESIP3_TOPIC /\ ~LogIgnored(log) /\ ~LogIsEsip6(log)
       /\ \A m \in DOMAIN chain :
             /\ \A i \in 1 .. Len(Txs(m)) : id \notin TxNames(Txs(m)[i])
             /\ \A i \in 1 .. Len(Logs(m)) : id \in LogNames(Logs(m)[i]) => Logs(m)[i] = log

(* C19: an ESIP-3 CreateEthscription log of a data URI leaves one inscription
   under the content hash, and when no other intent names that hash it has
   created_by_contract = true, creator_contract = the emitting contract and
   current_owner = the initial owner of the log; a log whose content hash is
   already inscribed (without the ESIP-6 rule) changes nothing in the store. *)
C19_Esip3CreatesOnce ==
    /\ [](\A n \in appliedBlocks : \A k \in 1 .. Len(Logs(n)) :
            Esip3Only(n, k)
            => LET id == EthId(LogHashOf(Logs(n)[k]), 0) IN
               /\ id \in DOMAIN ethscriptions
               /\ ethscriptions[id].created_by_contract
               /\ ethscriptions[id].creator_contract = Logs(n)[k].address
               /\ ethscriptions[id].current_owner = Logs(n)[k].a1
               /\ RowsOf(id) = <<>>)
    /\ [][\A b \in DOMAIN procs :
            (/\ procs[b].pc \in {"e3Check", "e3Insert"}
             /\ ~LogIsEsip6(CurLog(b))
             /\ EthId(LogHashOf(CurLog(b)), 0) \in DOMAIN ethscriptions
             /\ procs'[b] # procs[b])
            => /\ store' = store
               /\ procs'[b].pc = "done" \/ procs'[b].li > procs[b].li]_vars

\* C19 witness: the same CreateEthscription event was applied in two blocks
\* and nothing else names its content; the inscription is the contract's
\* creation, owned by the initial owner.
C19_Witness ==
    \E m, n \in appliedBlocks : \E k \in 1 .. Len(Logs(n)) :
       /\ m # n /\ Logs(m) = Logs(n)
       /\ Esip3Only(n, k)
       /\ ethscriptions[EthId(LogHashOf(Logs(n)[k]), 0)].created_by_contract
       /\ ethscriptions[EthId(LogHashOf(Logs(n)[k]), 0)].current_owner = Logs(n)[k].a1
       /\ ethscriptions[EthId(LogHashOf(Logs(n)[k]), 0)].current_owner # Logs(n)[k].address

(* C16: when a store write fails while a batch is applied, the checkpoint is
   not advanced past the block of that write (the value written is at most
   that block, which is then processed again); in particular there is no
   state in which an owner update succeeded, its Transfer insert failed and
   the checkpoint moved past the block. *)
C16_FailedWriteHoldsCheckpoint ==
    \A f \in failedWrites : checkpoint = NoValue \/ checkpoint <= f.block

(* C20: when an endpoint answers a provider.getBlock with a rate limit and the
   call goes on to another attempt, the pool index has advanced by exactly one
   position, modulo the pool size. *)
C20_RateLimitAdvancesByOne ==
    [][\A b \in DOMAIN procs :
          (/\ procs[b].pc = "fetch" /\ Respond(b) = "429"
           /\ b \in DOMAIN procs' /\ procs'[b].pc = "fetch"
           /\ procs'[b].providerAttempt = procs[b].providerAttempt + 1)
          => currentRpcIndex' = switchProvider(currentRpcIndex)]_vars

\* The requests a getBlockWithRetry call has sent when it is in round
\* providerAttempt at retry i.
RequestsAtMost(w) == w.providerAttempt * retries + w.i + 1
InFetch(w) == w.pc \in {"fetch", "fetchSleep"}

(* C21: a getBlockWithRetry call always terminates.  It is in one of at most
   |RPC_URLS| rounds and at one of at most `retries` attempts of that round,
   so it has sent at most retries x |RPC_URLS| requests; every step of the call
   either leaves the loop or moves to a later attempt; an error that is no
   rate limit is followed by the backoff and by a retry with the pool index
   left alone until the retries of the round are used up; the call that leaves
   the loop without a block has failed (null); and every call does leave the
   loop. *)
C21_GetBlockTerminates ==
    /\ [](\A b \in DOMAIN procs :
            InFetch(procs[b])
            => /\ procs[b].providerAttempt \in 0 .. Len(RPC_URLS) - 1
               /\ procs[b].i \in 0 .. retries - 1
               /\ RequestsAtMost(procs[b]) <= retries * Len(RPC_URLS))
    /\ [][\A b \in DOMAIN procs :
            (InFetch(procs[b]) /\ procs'[b] # procs[b])
            => /\ \/ ~InFetch(procs'[b])
                  \/ procs[b].pc = "fetch" /\ procs'[b].pc = "fetchSleep"
                     /\ RequestsAtMost(procs'[b]) = RequestsAtMost(procs[b])
                  \/ procs'[b].pc = "fetch"
                     /\ RequestsAtMost(procs'[b]) > RequestsAtMost(procs[b])
               /\ (Respond(b) = "err" /\ procs[b].i + 1 < retries)
                  => InFetch(procs'[b]) /\ currentRpcIndex' = currentRpcIndex
                     /\ procs'[b].providerAttempt = procs[b].providerAttempt
               /\ (~InFetch(procs'[b]) /\ Respond(b) # "ok")
                  => procs'[b].pc = "done" /\ b \in failedBlocks']_vars
    /\ \A b \in BlockNums :
          (b \in DOMAIN procs /\ InFetch(procs[b]))
          ~> (b \notin DOMAIN procs \/ ~InFetch(procs[b]))

\* C21 witness: every endpoint answered with an error that is no rate limit, and
\* the call returned null after the last retry of the last round.
C21_Witness ==
    \E b \in failedBlocks :
       /\ b \in DOMAIN procs /\ procs[b].pc = "done"
       /\ \A e \in Endpoints : endpoints[e] = "err"
       /\ RequestsAtMost(procs[b]) = retries * Len(RPC_URLS)

(* C22: a block whose event logs cannot be fetched, provider.getLogs failing
   on every attempt, is not treated as applied: it is not among the blocks
   counted as processed to the end of their logs, and the checkpoint does
   not advance past it. *)
C22_FailedLogsHoldCheckpoint ==
    \A n \in logsDown :
        /\ n \notin appliedBlocks
        /\ checkpoint = NoValue \/ checkpoint <= n

\* The worker is at a step of processEsip2Transfer for its current log.
InEsip2(b, label) ==
    procs[b].pc = label /\ InLogs(b) /\ CurLog(b).topic0 = ESIP2_TOPIC

(* C23: an ESIP-2 transfer log is applied exactly when the select finds the
   inscription with current_owner equal to the previousOwner topic: then the
   update sets current_owner to the recipient and the insert appends one
   Transfer row of type esip2 with from = previousOwner, the log index and
   the contract address; when the inscription is absent or owned by someone
   else the call moves on to the next log and no table changes. *)
C23_Esip2AppliedIffPreviousOwner ==
    [][\A b \in DOMAIN procs :
          /\ (InEsip2(b, "e2Select") /\ procs'[b] # procs[b]) =>
                IF /\ XferId(b) \in DOMAIN ethscriptions
                   /\ ethscriptions[XferId(b)].current_owner = CurLog(b).a1
                THEN procs'[b].pc = "xferUpdate" /\ procs'[b].li = procs[b].li
                ELSE /\ store' = store
                     /\ procs'[b].pc \notin {"xferUpdate", "xferInsert", "syncFixed", "syncBonding"}
                     /\ procs'[b].li # procs[b].li
          /\ (InEsip2(b, "xferUpdate") /\ procs'[b] # procs[b]) =>
                /\ ethscriptions'[XferId(b)].current_owner = CurLog(b).a2
                /\ transfers' = transfers
          /\ (InEsip2(b, "xferInsert") /\ procs'[b] # procs[b]) =>
                /\ ethscriptions' = ethscriptions
                /\ transfers' = Append(transfers, transfers'[Len(transfers')])
                /\ LET r == transfers'[Len(transfers')] IN
                      /\ r.transfer_type = "esip2"
                      /\ r.ethscription_id = XferId(b)
                      /\ r.from_address = CurLog(b).a1 /\ r.to_address = CurLog(b).a2
                      /\ r.log_index = procs[b].li
                      /\ r.contract_address = CurLog(b).address]_vars

\* C23 witness: an ESIP-2 log was applied, and a processBlock call has gone
\* through a block whose ESIP-2 log names a previous owner who no longer
\* owns the inscription, leaving no row of that log.
C23_Witness ==
    /\ \E r \in 1 .. Len(transfers) :
          /\ transfers[r].transfer_type = "esip2"
          /\ ethscriptions[transfers[r].ethscription_id].current_owner = transfers[r].to_address
    /\ \E b \in DOMAIN procs :
          /\ procs[b].pc = "done" /\ Len(Logs(b)) > 0 /\ Logs(b)[1].topic0 = ESIP2_TOPIC
          /\ EthId(Logs(b)[1].id, 0) \in DOMAIN ethscriptions
          /\ ethscriptions[EthId(Logs(b)[1].id, 0)].current_owner # Logs(b)[1].a1
          /\ \A r \in 1 .. Len(transfers) : transfers[r].block_number # b

\* The worker is at a step of processEsip1Transfer for its current log.
InEsip1(b, label) ==
    procs[b].pc = label /\ InLogs(b) /\ CurLog(b).topic0 = ESIP1_TOPIC

(* C24: an ESIP-1 transfer log naming a stored inscription is applied whoever
   owns the inscription and whichever contract emitted the log: the update
   sets current_owner to the recipient and the insert appends one Transfer
   row of type esip1 whose from is the owner the select returned; when no
   inscription has that id the call moves on to the next log and no table
   changes. *)
C24_Esip1AlwaysApplied ==
    [][\A b \in DOMAIN procs :
          /\ (InEsip1(b, "e1Select") /\ procs'[b] # procs[b]) =>
                IF XferId(b) \in DOMAIN ethscriptions
                THEN /\ procs'[b].pc = "xferUpdate" /\ procs'[b].li = procs[b].li
                     /\ procs'[b].from = ethscriptions[XferId(b)].current_owner
                     /\ store' = store
                ELSE /\ store' = store
                     /\ procs'[b].pc \notin {"xferUpdate", "xferInsert", "syncFixed", "syncBonding"}
                     /\ procs'[b].li # procs[b].li
          /\ (InEsip1(b, "xferUpdate") /\ procs'[b] # procs[b]) =>
                /\ ethscriptions'[XferId(b)].current_owner = CurLog(b).a1
                /\ transfers' = transfers
                /\ procs'[b].pc = "xferInsert" /\ procs'[b].from = procs[b].from
          /\ (InEsip1(b, "xferInsert") /\ procs'[b] # procs[b]) =>
                /\ ethscriptions' = ethscriptions
                /\ transfers' = Append(transfers, transfers'[Len(transfers')])
                /\ LET r == transfers'[Len(transfers')] IN
                      /\ r.transfer_type = "esip1"
                      /\ r.ethscription_id = XferId(b)
                      /\ r.from_address = procs[b].from /\ r.to_address = CurLog(b).a1
                      /\ r.log_index = procs[b].li
                      /\ r.contract_address = CurLog(b).address]_vars

\* C24 witness: an ESIP-1 log moved an inscription away from an owner who is
\* neither the recipient nor the emitting contract, and another block whose
\* ESIP-1 log found no inscription was processed without leaving a row.
C24_Witness ==
    /\ \E r \in 1 .. Len(transfers) :
          /\ transfers[r].transfer_type = "esip1"
          /\ transfers[r].from_address \notin {transfers[r].to_address, transfers[r].contract_address}
          /\ ethscriptions[transfers[r].ethscription_id].current_owner = transfers[r].to_address
    /\ \E b \in appliedBlocks :
          /\ Len(Logs(b)) > 0 /\ Logs(b)[1].topic0 = ESIP1_TOPIC
          /\ \A r \in 1 .. Len(transfers) : transfers[r].block_number # b

\* The worker is at a step of the deploy branch of processTokenOperation, or
\* at the insert of the inscription that carries the deploy.
InDeploy(b, label) ==
    /\ procs[b].pc = label /\ ~InLogs(b)
    /\ CreatedJson(b).p = "erc-20-fixed-denomination" /\ CreatedJson(b).op = "deploy"

(* C25: a fixed-denomination deploy inserts a token row, under the tick in
   lower case and with minted = 0, exactly when the tick is present and at
   most 28 characters long, max > 0, lim > 0, lim divides max, and no row
   has that tick; a deploy of a tick that has a row leaves the row as it
   is, and no step ever changes the max_supply or the denomination of a
   token. *)
C25_DeployInsertsIffValid ==
    /\ [](\A t \in DOMAIN tokens :
             /\ t.name \notin {"BSCT"} /\ t.len \in 1 .. 28
             /\ tokens[t].max_supply > 0 /\ tokens[t].denomination > 0
             /\ tokens[t].max_supply % tokens[t].denomination = 0)
    /\ [][/\ \A t \in DOMAIN tokens :
               /\ t \in DOMAIN tokens'
               /\ tokens'[t].max_supply = tokens[t].max_supply
               /\ tokens'[t].denomination = tokens[t].denomination
          /\ \A b \in DOMAIN procs :
               LET json == CreatedJson(b)
                   tick == [name |-> IF json.tick.name = "BSCT" THEN "bsct" ELSE json.tick.name,
                            len |-> json.tick.len]
               IN
               /\ (/\ InDeploy(b, "createInsert") /\ procs'[b] # procs[b]
                   /\ ethscriptions' # ethscriptions) =>
                     /\ tokens' = tokens
                     /\ procs'[b].pc = "tokExisting"
                           <=> /\ json.tick.len \in 1 .. 28 /\ json.max > 0 /\ json.lim > 0
                               /\ json.max % json.lim = 0
                     /\ procs'[b].pc # "tokInsert"
               /\ (InDeploy(b, "tokExisting") /\ procs'[b] # procs[b]) =>
                     /\ tokens' = tokens
                     /\ procs'[b].pc = "tokInsert" <=> tick \notin DOMAIN tokens
               /\ (InDeploy(b, "tokInsert") /\ procs'[b] # procs[b]) =>
                     IF tick \in DOMAIN tokens THEN tokens' = tokens
                     ELSE tokens' = tokens @@
                            (tick :> [max_supply |-> json.max, denomination |-> json.lim,
                                      minted |-> 0])]_vars

\* C25 witness: the tick deployed in upper case has its row under the lower
\* case spelling with the numbers of that deploy, the block deploying the
\* same tick with other numbers has been processed, and so has the block
\* with the ticks of 28 and 29 characters, of which only the first has a row.
C25_Witness ==
    /\ Tick \in DOMAIN tokens /\ tokens[Tick].max_supply = 2 /\ tokens[Tick].denomination = 1
    /\ \E n \in appliedBlocks : \E i \in 1 .. Len(Txs(n)) :
          parseProtocolJson(TxDecoded(Txs(n)[i])).max = 4
    /\ \E n \in appliedBlocks : \E i \in 1 .. Len(Txs(n)) :
          parseProtocolJson(TxDecoded(Txs(n)[i])).tick.len = 29
    /\ \E t \in DOMAIN tokens : t.len = 28
    /\ \A t \in DOMAIN tokens : t.len # 29 /\ t.name \notin {"zmax", "zlim"}

\* The worker is at a step of the mint branch of processTokenOperation.
InMint(b, label) ==
    /\ procs[b].pc = label /\ ~InLogs(b)
    /\ CreatedJson(b).p = "erc-20-fixed-denomination" /\ CreatedJson(b).op = "mint"

(* C26: a fixed-denomination mint without amt mints exactly lim, one note of
   amount lim and minted raised by lim over the value read; a mint whose amt
   is present and differs from lim, amt = 0 included, is rejected: the call
   moves on to the next transaction and neither the token nor the notes
   change. *)
C26_MintAmountMustEqualLim ==
    [][\A b \in DOMAIN procs :
          LET json == CreatedJson(b)
              tick == tickOf(json)
          IN
          /\ (/\ InMint(b, "mintToken") /\ procs'[b] # procs[b] /\ tick \in DOMAIN tokens
              /\ json.amt # NoValue /\ json.amt # tokens[tick].denomination) =>
                /\ procs'[b].pc \notin {"mintCount", "mintInsert", "mintUpdate"}
                /\ procs'[b].ti # procs[b].ti
                /\ tokens' = tokens /\ token_notes' = token_notes
          /\ (/\ InMint(b, "mintInsert") /\ procs'[b] # procs[b] /\ json.amt = NoValue
              /\ token_notes' # token_notes) =>
                \E k \in DOMAIN token_notes' \ DOMAIN token_notes :
                   /\ DOMAIN token_notes' = DOMAIN token_notes \cup {k}
                   /\ token_notes'[k].amount = tokens[tick].denomination
          /\ (/\ InMint(b, "mintUpdate") /\ procs'[b] # procs[b] /\ json.amt = NoValue) =>
                tokens'[tick].minted = procs[b].minted + tokens[tick].denomination]_vars

(* C27: bonding-curve tokens keep the invariants of fixed-denomination
   tokens: the max_supply of every deployed token is a multiple of its
   denomination, minted never exceeds max_supply, every note has the amount
   of its token's denomination, and there are notes only of deployed ticks
   (a mint of a tick nobody deployed leaves no trace). *)
C27_BondingKeepsInvariants ==
    /\ \A t \in DOMAIN bonding_tokens :
          /\ bonding_tokens[t].max_supply % bonding_tokens[t].denomination = 0
          /\ bonding_tokens[t].minted <= bonding_tokens[t].max_supply
    /\ \A k \in DOMAIN bonding_notes :
          /\ k[1] \in DOMAIN bonding_tokens
          /\ bonding_notes[k].amount = bonding_tokens[k[1]].denomination

\* The item_index values of the items of collection c, and their number.
IndexesOf(c) ==
    {collection_items[k].item_index :
        k \in {j \in 1 .. Len(collection_items) : collection_items[j].collection_id = c}}
ItemCount(c) ==
    Cardinality({j \in 1 .. Len(collection_items) : collection_items[j].collection_id = c})

(* C28: in every reachable state the items of every collection carry the
   item_index values 1..k, without gap and without duplicate, k is at most
   the collection's max_supply, and an item row is only ever added to a
   collection that exists and is not locked when the row is added. *)
C28_ItemsDenseWithinUnlocked ==
    [][/\ \A c \in DOMAIN collections' :
            /\ IndexesOf(c)' = 1 .. ItemCount(c)'
            /\ collections'[c].max_supply # 0 => ItemCount(c)' <= collections'[c].max_supply
       /\ collection_items' # collection_items =>
            /\ collection_items' = Append(collection_items,
                                          collection_items'[Len(collection_items')])
            /\ LET c == collection_items'[Len(collection_items')].collection_id IN
                  c \in DOMAIN collections /\ ~collections[c].locked]_vars

(* C29: locking is irreversible: a collection whose locked flag is true is
   still there with locked true after every step, whichever collection
   operation, create or transfer the step belongs to. *)
C29_LockIsIrreversible ==
    [][\A c \in DOMAIN collections :
          collections[c].locked => c \in DOMAIN collections' /\ collections'[c].locked]_vars

\* C29 witness: a collection is locked, and a block after the one holding the
\* lock_collection, holding an edit_collection or a transfer_ownership of
\* its owner, has been processed and has changed the collection.
C29_Witness ==
    \E c \in DOMAIN collections : \E n, l \in appliedBlocks :
       /\ collections[c].locked /\ l < n /\ Len(Txs(l)) > 0 /\ Len(Txs(n)) > 0
       /\ parseProtocolJson(TxDecoded(Txs(l)[1])).op = "lock_collection"
       /\ parseProtocolJson(TxDecoded(Txs(l)[1])).collection_id = c
       /\ parseProtocolJson(TxDecoded(Txs(n)[1])).op \in {"edit_collection", "transfer_ownership"}
       /\ parseProtocolJson(TxDecoded(Txs(n)[1])).collection_id = c
       /\ collections[c].name = "n2" \/ collections[c].owner = "b"

\* The worker is at the update of an edit_collection, a lock_collection or a
\* transfer_ownership; the address that inscribed the operation.
InOwnerOp(b) == procs[b].pc \in {"colEdit", "colLock", "colTransfer"}
Inscriber(b) == IF InLogs(b) THEN CurLog(b).address ELSE CurTx(b).from

(* C30: edit_collection, lock_collection and transfer_ownership take effect
   only when the address that inscribed them is the collection's current
   owner, and leave every collection unchanged otherwise; a
   transfer_ownership of the owner stores new_owner in lower case, so that
   from then on the operations of the new owner are the ones accepted. *)
C30_OwnerGatedOperations ==
    [][\A b \in DOMAIN procs : (InOwnerOp(b) /\ procs'[b] # procs[b]) =>
          LET json == CreatedJson(b)
              c == json.collection_id
          IN IF c \in DOMAIN collections /\ collections[c].owner = Inscriber(b)
             THEN /\ \A d \in DOMAIN collections \ {c} : collections'[d] = collections[d]
                  /\ procs[b].pc = "colLock" => collections'[c].locked
                  /\ procs[b].pc = "colTransfer" =>
                        collections'[c].owner = IF json.new_owner = "B" THEN "b"
                                                ELSE json.new_owner
                  /\ procs[b].pc = "colEdit" =>
                        /\ json.name # "" => collections'[c].name = json.name
                        /\ json.symbol # "" => collections'[c].symbol = json.symbol
             ELSE collections' = collections]_vars


\* The step worker b is about to take validates the protocol operation of the
\* inscription it is creating, and the operation fails: in the synchronous
\* part of the handler that follows the insert, or at the select that follows.
FailsValidation(b) ==
    LET json == CreatedJson(b) IN
    CASE procs[b].pc = "createInsert" ->
           /\ CreatedId(b) \notin DOMAIN ethscriptions
           /\ json.p = "erc-20-fixed-denomination"
           /\ \/ json.op = "deploy" /\ ~TokenDeployValid(json)
              \/ json.op = "mint" /\ (json.amt = NotInteger \/ json.tick.len = 0)
      [] procs[b].pc = "mintToken" ->
           \/ tickOf(json) \notin DOMAIN tokens
           \/ LET token == tokens[tickOf(json)]
                  amount == mintAmount(json, token.denomination)
              IN amount # token.denomination \/ token.minted + amount > token.max_supply
      [] procs[b].pc = "addSelect" ->
           AddTo(b) \notin DOMAIN collections \/ collections[AddTo(b)].locked
      [] procs[b].pc \in {"colEdit", "colLock", "colTransfer"} ->
           ~\E id \in DOMAIN collections : OwnedCollection(b, id)
      [] OTHER -> FALSE

(* C31: the step in which the protocol operation of a new inscription fails
   validation leaves the inscription stored and owned by its creator, changes
   no token, note, collection or collection-item row, and takes the
   processBlock call on to the next transaction or log of the block. *)
C31_InvalidOpOnlyDropsTheOp ==
    [][\A b \in DOMAIN procs :
          (FailsValidation(b) /\ procs'[b] # procs[b])
          => /\ CreatedId(b) \in DOMAIN ethscriptions'
             /\ ethscriptions'[CreatedId(b)].current_owner = ethscriptions'[CreatedId(b)].creator
             /\ UNCHANGED <<tokens, token_notes, bonding_tokens, bonding_notes, collTables>>
             /\ procs'[b] = NextIntent(b, procs[b])]_vars


\* The positions inside the protocol handlers.
HandlerPcs ==
    {"tokExisting", "tokInsert", "mintToken", "mintCount", "mintInsert", "mintUpdate",
     "bondExisting", "bondInsert", "bmintToken", "bmintCount", "bmintInsert", "bmintUpdate",
     "colCreate", "colEdit", "colLock", "colTransfer", "addSelect", "addCount", "addInsert"}

\* The rows an inscription backs: notes minted by it, collections created by
\* it, items it was added as.
BackedBy(id) ==
    <<Cardinality({k \in DOMAIN token_notes : token_notes[k].ethscription_id = id}),
      Cardinality({k \in DOMAIN bonding_notes : bonding_notes[k].ethscription_id = id}),
      Cardinality({k \in 1 .. Len(collection_items) :
                      collection_items[k].ethscription_id = id})>>

(* C32: a Create enters the protocol handlers only in the step whose insert
   added its inscription row; a Create absorbed at the uniqueness select, by a
   uniqueness conflict or by an insert error goes on to the next intent with
   every token, note and collection table as it was, and no inscription id
   ever backs more than one note or one collection item. *)
C32_HandlerOnlyAfterInsert ==
    /\ [](\A id \in DOMAIN ethscriptions :
             \A n \in 1 .. 3 : BackedBy(id)[n] <= 1)
    /\ [][\A b \in DOMAIN procs :
             (/\ procs[b].pc \in {"createCheck", "createInsert", "e3Check", "e3Insert"}
              /\ procs'[b] # procs[b])
             => IF CreatedId(b) \notin DOMAIN ethscriptions
                   /\ CreatedId(b) \in DOMAIN ethscriptions'
                THEN procs'[b] = processProtocolHandlers(b, procs[b])
                ELSE /\ procs'[b].pc \notin HandlerPcs
                     /\ UNCHANGED <<tokens, token_notes, bonding_tokens, bonding_notes,
                                    collTables>>]_vars

\* C32 witness: with nothing in flight, the same mint payload was inscribed by
\* two applied blocks, one insert was refused with an error, and the token
\* counts one mint and has one note.
C32_Witness ==
    /\ Quiet
    /\ \E n, l \in appliedBlocks : n # l /\ chain[n] = SameMint /\ chain[l] = SameMint
    /\ \E f \in failedWrites : f.write = "createInsert"
    /\ Tick \in DOMAIN tokens /\ tokens[Tick].minted = 1
    /\ Cardinality(DOMAIN token_notes) = 1


\* A function (a table keyed by its primary key) keeps its keys, and its rows
\* but for the field named.
KeepsBut(old, new, field) ==
    /\ DOMAIN old \subseteq DOMAIN new
    /\ \A k \in DOMAIN old :
          \A f \in DOMAIN old[k] : f # field => new[k][f] = old[k][f]

TransferPcs == {"xferUpdate", "xferInsert", "syncFixed", "syncBonding"}

(* C33: no step deletes an inscription row or changes a field of it other than
   current_owner; current_owner changes only in the update of a transfer; the
   steps of a transfer change nothing but current_owner, the owner of notes
   and the Transfer rows; and every step leaves the Transfer rows it found in
   place and unchanged, adding at most one at the end. *)
C33_InscriptionsImmutableButOwner ==
    [][/\ KeepsBut(ethscriptions, ethscriptions', "current_owner")
       /\ (\E id \in DOMAIN ethscriptions :
              ethscriptions'[id].current_owner # ethscriptions[id].current_owner)
          => \E b \in DOMAIN procs : procs[b].pc = "xferUpdate" /\ procs'[b] # procs[b]
       /\ Len(transfers') \in {Len(transfers), Len(transfers) + 1}
       /\ SubSeq(transfers', 1, Len(transfers)) = transfers
       /\ \A b \in DOMAIN procs :
             (procs[b].pc \in TransferPcs /\ procs'[b] # procs[b])
             => /\ DOMAIN ethscriptions' = DOMAIN ethscriptions
                /\ KeepsBut(token_notes, token_notes', "owner")
                /\ DOMAIN token_notes' = DOMAIN token_notes
                /\ KeepsBut(bonding_notes, bonding_notes', "owner")
                /\ DOMAIN bonding_notes' = DOMAIN bonding_notes
                /\ UNCHANGED <<tokens, bonding_tokens, collTables>>]_vars

\* C33 witness: with nothing in flight, an inscription that backs a token note
\* is owned, note and all, by somebody who is not its creator, and a Transfer
\* row records it.
C33_Witness ==
    /\ Quiet
    /\ \E k \in DOMAIN token_notes :
          LET id == token_notes[k].ethscription_id IN
          /\ ethscriptions[id].current_owner # ethscriptions[id].creator
          /\ token_notes[k].owner = ethscriptions[id].current_owner
          /\ RowsOf(id) # <<>>


(* C34: the content every stored inscription was hashed from is canonical:
   for the data URI x of its Create, the id is the hash of
   decodeGzipContent(x), decodeGzipContent(decodeGzipContent(x)) equals
   decodeGzipContent(x), and decodeGzipContent(x) is x itself when x has no
   gzip parameter, is not base64, or does not inflate. *)
C34_GzipDecodingIsIdempotent ==
    \A id \in DOMAIN ethscriptions :
       LET row == ethscriptions[id]
           x == TxContent(chain[row.creation_block].txs[row.creation_tx[3]])
           d == decodeGzipContent(x)
       IN /\ id[1] = sha256(d)
          /\ decodeGzipContent(d) = d
          /\ (\/ \A i \in 1 .. Len(x.params) : x.params[i] # "gzip"
              \/ \A i \in 1 .. Len(x.params) : x.params[i] # "base64"
              \/ x.body.gz = 0) => d = x


(* C35: the checkpoint is written only by the upsert that follows the batch,
   and that upsert runs with no processBlock call in flight: every call of
   the batch (blocks from processed - BATCH_SIZE, or startBlock, up to
   processed - 1) has returned, with its block applied or its fetch given up.
   While a call is in flight main() is not writing the checkpoint. *)
C35_CheckpointAfterBatchReturned ==
    /\ [](mpc = "save" => Quiet)
    /\ [][checkpoint' # checkpoint
          => /\ mpc = "save" /\ Quiet
             /\ checkpoint' = processed
             /\ \A n \in BlockNums :
                   (startBlock <= n /\ processed - BATCH_SIZE <= n /\ n < processed)
                   => n \in appliedBlocks \cup failedBlocks]_vars

\* C35 witness: the checkpoint covers a batch of two blocks whose calls ran
\* concurrently and have both returned, and main() is past the upsert.
C35_Witness ==
    /\ checkpoint = 2 /\ processed = 2 /\ startBlock = 0
    /\ mpc \in {"batch", "head"} /\ Quiet
    /\ {0, 1} \subseteq appliedBlocks


(* C36: once main() has read the head H, every block with number <= H, block
   H included, is eventually applied, whether or not the chain grows past H. *)
C36_ObservedHeadIsEventuallyApplied ==
    \A H \in BlockNums :
       (mpc = "start" /\ currentBlock = H) ~> (\A n \in 0 .. H : n \in appliedBlocks)


\* The blocks handed to processBlock by the slices that have returned.
Handed == appliedBlocks \cup failedBlocks

(* C37: every slice of blocks main() hands to processBlock starts at the block
   right after the last block handed before it, and holds no block that was
   handed before. *)
C37_BatchesContiguousAndDisjoint ==
    [][(mpc = "batch" /\ mpc' = "await")
       => /\ DOMAIN procs' \cap Handed = {}
          /\ Handed # {} => \A n \in DOMAIN procs' :
                               (\A l \in DOMAIN procs' : n <= l) => n - 1 \in Handed
          /\ \A n \in DOMAIN procs' : \A l \in Handed : l < n]_vars


(* C38: the checkpoint never decreases: every upsert of it writes a value at
   least as large as the one stored (an absent row counting as below every
   block number). *)
C38_CheckpointNeverDecreases ==
    [][checkpoint' >= checkpoint]_vars


(* C39: an inscription stored under an ESIP-6 suffixed id is owned by the
   owner it was created with and has no Transfer row, whatever transfers
   (EOA/bulk, ESIP-1, ESIP-2) name the hash of its content. *)
C39_Esip6OwnerNeverChanges ==
    \A id \in DOMAIN ethscriptions :
       id[2] # 0 => /\ ethscriptions[id].current_owner = InitialOwner(id)
                    /\ RowsOf(id) = <<>>
                    /\ RowsOf(EthId(id[1], 0)) = <<>>

\* C39 witness: with nothing in flight, the two ESIP-6 inscriptions are
\* stored for their owner a, a's bulk transfer naming the plain hash and the
\* ESIP-6 hash has moved the plain inscription, and a block of events naming
\* both ESIP-6 hashes has been applied after their creation.
C39_Witness ==
    /\ Quiet
    /\ \E id \in DOMAIN ethscriptions :
          id[2] # 0 /\ ~ethscriptions[id].created_by_contract
          /\ ethscriptions[id].current_owner = "a"
    /\ \E id \in DOMAIN ethscriptions :
          /\ id[2] # 0 /\ ethscriptions[id].created_by_contract
          /\ \E n \in appliedBlocks :
                /\ ethscriptions[id].creation_block < n
                /\ \E i \in 1 .. Len(chain[n].logs) :
                      chain[n].logs[i].topic0 = ESIP2_TOPIC /\ chain[n].logs[i].id = id[1]
    /\ \E r \in 1 .. Len(transfers) :
          transfers[r].transfer_type = "eoa" /\ transfers[r].ethscription_id = EthId(H1, 0)


(* C40: the backfill indexer and the cron indexer read the shared checkpoint
   the same way: whoever wrote it, every block below the checkpoint has been
   processed by one of the two, so that the one resuming from it skips no
   block. *)
C40_IndexersShareCheckpoint ==
    checkpoint # NoValue => \A n \in BlockNums : n < checkpoint => n \in appliedBlocks

====
